---- MODULE Spec2Model ----
(***************************************************************************)
(* noisepan: the persistent store (internal/store/store.go, schema.sql)    *)
(* and the web-feed fetcher (internal/source/rss.go) as state machines.    *)
(*                                                                         *)
(* Strings whose byte order matters (timestamps, texts) are sequences of   *)
(* character codes; identifiers that are only compared for equality are    *)
(* TLA+ strings.                                                           *)
(***************************************************************************)
EXTENDS Integers, Sequences, FiniteSets, TLC

VARIABLES
    posts,          \* table posts
    scores,         \* table scores
    post_also_in,   \* table post_also_in
    nextId,         \* AUTOINCREMENT counter of posts.id
    last,           \* the most recent Store call, when it was a Deduplicate
                    \* that returned no error: the count it returned and the
                    \* number of scores rows it deleted
    feeds,          \* RSSSource.feeds
    unsent,         \* keys of domainFeeds the range loop has not reached yet
    domainJobs,     \* channel domainJobs
    worker,         \* the worker goroutines of one Fetch
    results,        \* channel results
    closed,         \* the channels closed so far
    fetched,        \* Fetch's local posts
    lastBy,         \* per host, the worker that sent the latest request to it
    seen,           \* per feed URL, how often fetchWithRetry was called on it,
                    \* how often it returned no error, and how many of its
                    \* results the calling goroutine received
    main,           \* position of the goroutine that called Fetch
    pull,           \* one run of pullAction: its configuration, its position
                    \* and its local variables
    scored,         \* the most recent call of taste.Score: the post's text,
                    \* the profile and the ScoredPost it returned
    trending,       \* the most recent call of taste.FindTrending: its
                    \* arguments and the trends it returned
    run,            \* one run of digestAction or rescoreAction: its
                    \* configuration, its position and its local variables
    watch,          \* one call of runWatch: its position, its context, its
                    \* ticker and the cycle it is running
    hn,             \* one call of HNSource.Fetch: its channels, its goroutines
                    \* and the posts it collected
    ingest,         \* the ingest passes run over one source output, with the
                    \* store a single complete pass would have left
    summ            \* the most recent Summary handed to a formatter

storeVars == <<posts, scores, post_also_in, nextId, last>>

rssVars == <<feeds, unsent, domainJobs, worker, results, closed, fetched, lastBy, seen, main>>

pullVars == <<pull>>

tasteVars == <<scored>>

lateVars == <<hn, ingest, summ>>

otherVars == <<trending, run, watch, hn, ingest, summ>>

vars == <<posts, scores, post_also_in, nextId, last,
          feeds, unsent, domainJobs, worker, results, closed, fetched, lastBy, seen, main,
          pull, scored, trending, run, watch, hn, ingest, summ>>

(***************************************************************************)
(* Bounds                                                                  *)
(***************************************************************************)
MaxId == 3          \* rows ever inserted into posts in one behaviour

PostDays == {1}     \* days on which posts are posted
Fracs == {0, 1}     \* sub-second part of a time, in tenths of a second
RetainDays == {0, 1}    \* retain_days passed to PruneOld
NowDays == {2, 3}       \* days on which PruneOld reads the clock

Sources == {"rss", "telegram", "reddit"}
Channels == {"c1"}
ExtIDs == {"1"}
Tiers == {"skim"}

Texts == {<<>>, <<97>>, <<98>>}
(***************************************************************************)
(* time.Time, formatTime, parseTime                                        *)
(* A time is a day and a sub-second fraction; the fields between them      *)
(* (hours, minutes, seconds) are equal for all modelled times and are      *)
(* left out of the formatted string, which does not change byte order.     *)
(***************************************************************************)
ZeroTime == [day |-> 0, frac |-> 0]

Times == [day : PostDays, frac : Fracs]

IsZero(t) == t = ZeroTime

Before(t, u) == t.day < u.day \/ (t.day = u.day /\ t.frac < u.frac)

AddDate(t, days) == [t EXCEPT !.day = @ + days]

Digit(n) == 48 + n

\* time.RFC3339Nano in UTC: trailing zeros of the fraction are dropped, and
\* the decimal point with them; the zone is "Z".
formatTime(t) ==
    <<Digit(t.day \div 10), Digit(t.day % 10)>>
        \o (IF t.frac = 0 THEN <<>> ELSE <<46, Digit(t.frac)>>)
        \o <<90>>

parseTime(s) ==
    [day |-> (s[1] - 48) * 10 + (s[2] - 48),
     frac |-> IF s[3] = 46 THEN s[4] - 48 ELSE 0]

\* SQLite BINARY collation on TEXT: memcmp, then the shorter string first.
RECURSIVE StrLess(_, _)
StrLess(a, b) ==
    IF b = <<>> THEN FALSE
    ELSE IF a = <<>> THEN TRUE
    ELSE IF a[1] # b[1] THEN a[1] < b[1]
    ELSE StrLess(Tail(a), Tail(b))

(***************************************************************************)
(* Text helpers                                                            *)
(***************************************************************************)
Min(a, b) == IF a < b THEN a ELSE b

RECURSIVE TrimLeft(_)
TrimLeft(s) == IF s # <<>> /\ s[1] = 32 THEN TrimLeft(Tail(s)) ELSE s

RECURSIVE TrimRight(_)
TrimRight(s) ==
    IF s # <<>> /\ s[Len(s)] = 32 THEN TrimRight(SubSeq(s, 1, Len(s) - 1)) ELSE s

TrimSpace(s) == TrimRight(TrimLeft(s))

firstNRunes(s, n) ==
    IF n <= 0 \/ s = <<>> THEN <<>> ELSE SubSeq(s, 1, Min(n, Len(s)))

SnippetRunes == 200

\* a text one code point longer than a snippet: SnippetRunes times "x", then c
LongText(c) == [i \in 1..(SnippetRunes + 1) |-> IF i <= SnippetRunes THEN 120 ELSE c]

\* SHA-256 as an injective map whose order is unrelated to the text's; 0 is
\* the empty string, which no digest equals.
Sha256(s) ==
    CASE s = <<97>> -> 7
      [] s = <<98>> -> 3
      [] s = <<>> -> 9
      [] s = LongText(97) -> 4
      [] s = LongText(98) -> 5
      [] OTHER -> 10 + Len(s)

textHash(text, snippet) == Sha256(IF text = <<>> THEN snippet ELSE text)

(***************************************************************************)
(* SQL statements on a database value [posts, scores, post_also_in, err].  *)
(* err is set by a failed statement; a statement on a failed transaction   *)
(* is not executed (the Go code returns at the first error).               *)
(***************************************************************************)
DB == [posts |-> posts, scores |-> scores, post_also_in |-> post_also_in, err |-> FALSE]

Failed(db) == [db EXCEPT !.err = TRUE]

\* PRAGMA foreign_keys = ON
ForeignKeys == TRUE

PostIds(db) == {p.id : p \in db.posts}

\* INSERT OR IGNORE INTO post_also_in(post_id, source, channel):
\* UNIQUE(post_id, source, channel) conflicts are ignored, the foreign key
\* to posts(id) is not.
InsertAlsoIn(db, post_id, source, channel) ==
    IF ForeignKeys /\ post_id \notin PostIds(db) THEN Failed(db)
    ELSE [db EXCEPT !.post_also_in =
            @ \cup {[post_id |-> post_id, source |-> source, channel |-> channel]}]

\* DELETE FROM scores WHERE post_id IN ids
DeleteScores(db, ids) ==
    [db EXCEPT !.scores = {s \in @ : s.post_id \notin ids}]

\* DELETE FROM posts WHERE id IN ids: scores.post_id REFERENCES posts(id)
\* without ON DELETE, post_also_in.post_id with ON DELETE CASCADE.
DeletePosts(db, ids) ==
    IF ForeignKeys /\ \E s \in db.scores : s.post_id \in ids THEN Failed(db)
    ELSE [db EXCEPT !.posts = {p \in @ : p.id \notin ids},
                    !.post_also_in = {a \in @ : a.post_id \notin ids}]

\* Statement number stmt of a transaction in which statement number failAt
\* fails (an I/O error, a cancelled context); a failAt beyond the last
\* statement fails none.
Exec(tx, stmt, failAt, result) ==
    IF tx.err THEN tx
    ELSE IF stmt = failAt THEN Failed(tx)
    ELSE result

\* tx.Rollback() and tx.Commit(): the database after the call.
RollbackKeepsPartial(before, tx) == tx

Rollback(before, tx) == [before EXCEPT !.err = TRUE]

Commit(before, tx) == tx

(***************************************************************************)
(* Store.InsertPost                                                        *)
(***************************************************************************)
FetchTime == [day |-> 1, frac |-> 0]

ValidPostInputs ==
    [source : Sources, channel : Channels, external_id : ExtIDs,
     text : Texts \ {<<>>}, snippet : {<<>>},
     posted_at : Times, fetched_at : {FetchTime}]

\* one input for each validation InsertPost makes
InvalidPostInputs ==
    LET ok == [source |-> "rss", channel |-> "c1", external_id |-> "1",
               text |-> <<97>>, snippet |-> <<>>,
               posted_at |-> [day |-> 1, frac |-> 0], fetched_at |-> FetchTime]
    IN {[ok EXCEPT !.source = ""], [ok EXCEPT !.channel = ""],
        [ok EXCEPT !.external_id = ""], [ok EXCEPT !.posted_at = ZeroTime],
        [ok EXCEPT !.fetched_at = ZeroTime],
        [ok EXCEPT !.text = <<>>, !.snippet = <<32>>]}

PostInputs == ValidPostInputs \cup InvalidPostInputs

InsertPostInvalid(in) ==
    \/ in.source = ""
    \/ in.channel = ""
    \/ in.external_id = ""
    \/ IsZero(in.posted_at)
    \/ IsZero(in.fetched_at)
    \/ (TrimSpace(in.snippet) = <<>> /\ in.text = <<>>)

PostRow(in, id) ==
    LET snippet == IF TrimSpace(in.snippet) = <<>>
                   THEN firstNRunes(in.text, SnippetRunes)
                   ELSE TrimSpace(in.snippet)
    IN [id |-> id, source |-> in.source, channel |-> in.channel,
        external_id |-> in.external_id, text |-> in.text, snippet |-> snippet,
        text_hash |-> textHash(in.text, snippet),
        posted_at |-> formatTime(in.posted_at),
        fetched_at |-> formatTime(in.fetched_at)]

SameKey(p, in) ==
    p.source = in.source /\ p.channel = in.channel /\ p.external_id = in.external_id

\* INSERT ... ON CONFLICT(source, channel, external_id) DO UPDATE SET ...
\* id is the next AUTOINCREMENT value, used when a row is inserted.
UpsertNoConflictTarget(rows, in, id) == rows \cup {PostRow(in, id)}

Upsert(rows, in, id) ==
    IF \E p \in rows : SameKey(p, in)
    THEN {IF SameKey(p, in) THEN PostRow(in, p.id) ELSE p : p \in rows}
    ELSE rows \cup {PostRow(in, id)}

Other == [op |-> "other", n |-> 0, scores |-> 0]

InsertPost ==
    \E in \in PostInputs :
        IF InsertPostInvalid(in)
        THEN /\ last' = Other
             /\ UNCHANGED <<posts, scores, post_also_in, nextId>>
             /\ UNCHANGED <<rssVars, pullVars, tasteVars, otherVars>>
        ELSE /\ (\E p \in posts : SameKey(p, in)) \/ nextId <= MaxId
             /\ posts' = Upsert(posts, in, nextId)
             /\ nextId' = IF \E p \in posts' : p.id = nextId THEN nextId + 1 ELSE nextId
             /\ last' = Other
             /\ UNCHANGED <<scores, post_also_in>>
             /\ UNCHANGED <<rssVars, pullVars, tasteVars, otherVars>>

(***************************************************************************)
(* Store.SaveScore                                                         *)
(***************************************************************************)
\* a json.RawMessage: no bytes at all, the JSON null, or a JSON array with
\* its objects
NoBytes == [json |-> "", items |-> <<>>]

ValidScoreInputs ==
    [post_id : 1..MaxId, score : {0}, labels : {<<>>}, tier : Tiers,
     scored_at : {FetchTime}, explanation : {NoBytes}]

InvalidScoreInputs ==
    LET ok == [post_id |-> 1, score |-> 0, labels |-> <<>>, tier |-> "skim",
               scored_at |-> FetchTime, explanation |-> NoBytes]
    IN {[ok EXCEPT !.post_id = 0], [ok EXCEPT !.tier = ""],
        [ok EXCEPT !.scored_at = ZeroTime]}

ScoreInputs == ValidScoreInputs \cup InvalidScoreInputs

SaveScoreInvalid(in) == in.post_id = 0 \/ in.tier = "" \/ IsZero(in.scored_at)

\* var explanationVal sql.NullString, set when len(in.Explanation) > 0
NullString(explanation) == [Valid |-> explanation.json # "", String |-> explanation]

\* INSERT INTO scores ... ON CONFLICT(post_id) DO UPDATE; post_id REFERENCES posts(id)
UpsertScore(db, in) ==
    IF ForeignKeys /\ in.post_id \notin PostIds(db) THEN Failed(db)
    ELSE [db EXCEPT !.scores = {s \in @ : s.post_id # in.post_id}
                        \cup {[post_id |-> in.post_id, score |-> in.score,
                               labels |-> in.labels, tier |-> in.tier,
                               explanation |-> NullString(in.explanation)]}]

SaveScoreCall(db, in) ==
    IF SaveScoreInvalid(in) THEN Failed(db)
    ELSE LET res == UpsertScore(db, in) IN IF res.err THEN Failed(db) ELSE res

SaveScore ==
    \E in \in ScoreInputs :
        /\ scores' = SaveScoreCall(DB, in).scores
        /\ last' = Other
        /\ UNCHANGED <<posts, post_also_in, nextId>>
        /\ UNCHANGED <<rssVars, pullVars, tasteVars, otherVars>>

(***************************************************************************)
(* Store.Deduplicate                                                       *)
(***************************************************************************)
\* ORDER BY text_hash, posted_at, id
RowLessNoHash(p, q) ==
    \/ StrLess(p.posted_at, q.posted_at)
    \/ p.posted_at = q.posted_at /\ p.id < q.id

RowLess(p, q) ==
    \/ p.text_hash < q.text_hash
    \/ /\ p.text_hash = q.text_hash
       /\ \/ StrLess(p.posted_at, q.posted_at)
          \/ p.posted_at = q.posted_at /\ p.id < q.id

RECURSIVE OrderBy(_)
OrderBy(rows) ==
    IF rows = {} THEN <<>>
    ELSE LET first == CHOOSE p \in rows : \A q \in rows \ {p} : RowLess(p, q)
         IN <<first>> \o OrderBy(rows \ {first})

\* the rows.Next() loop: lastHash and keeperID start as "" and 0
RECURSIVE ScanDuplicates(_, _, _)
ScanDuplicates(rows, lastHash, keeperID) ==
    IF rows = <<>> THEN <<>>
    ELSE LET r == Head(rows)
         IN IF r.text_hash = lastHash
            THEN <<[dupID |-> r.id, keeperID |-> keeperID,
                    source |-> r.source, channel |-> r.channel]>>
                     \o ScanDuplicates(Tail(rows), lastHash, keeperID)
            ELSE ScanDuplicates(Tail(rows), r.text_hash, r.id)

\* the three statements run for one dupEntry, numbered k+1 .. k+3
DeleteDuplicateKeepsPost(tx, dup, k, failAt) ==
    LET t1 == Exec(tx, k + 1, failAt, InsertAlsoIn(tx, dup.keeperID, dup.source, dup.channel))
    IN Exec(t1, k + 2, failAt, DeleteScores(t1, {dup.dupID}))

DeleteDuplicateKeepsScore(tx, dup, k, failAt) ==
    LET t1 == Exec(tx, k + 1, failAt, InsertAlsoIn(tx, dup.keeperID, dup.source, dup.channel))
    IN Exec(t1, k + 3, failAt, DeletePosts(t1, {dup.dupID}))

DeleteDuplicateLinksDup(tx, dup, k, failAt) ==
    LET t1 == Exec(tx, k + 1, failAt, InsertAlsoIn(tx, dup.dupID, dup.source, dup.channel))
        t2 == Exec(t1, k + 2, failAt, DeleteScores(t1, {dup.dupID}))
    IN Exec(t2, k + 3, failAt, DeletePosts(t2, {dup.dupID}))

DeleteDuplicate(tx, dup, k, failAt) ==
    LET t1 == Exec(tx, k + 1, failAt, InsertAlsoIn(tx, dup.keeperID, dup.source, dup.channel))
        t2 == Exec(t1, k + 2, failAt, DeleteScores(t1, {dup.dupID}))
    IN Exec(t2, k + 3, failAt, DeletePosts(t2, {dup.dupID}))

RECURSIVE DeleteDuplicates(_, _, _, _)
DeleteDuplicates(tx, toDelete, i, failAt) ==
    IF i > Len(toDelete) THEN tx
    ELSE DeleteDuplicates(DeleteDuplicate(tx, toDelete[i], 3 * (i - 1), failAt),
                          toDelete, i + 1, failAt)

ToDelete(db) == ScanDuplicates(OrderBy(db.posts), 0, 0)

\* statement 0 is the SELECT, 3n+1 the COMMIT
DedupTx(db, failAt) ==
    LET toDelete == ToDelete(db)
        t1 == DeleteDuplicates(Exec(db, 0, failAt, db), toDelete, 1, failAt)
    IN Exec(t1, 3 * Len(toDelete) + 1, failAt, t1)

DedupFailPoints(db) == 0..(3 * Len(ToDelete(db)) + 2)

\* the database after the call, whether it returned an error, and the count
\* it returned
DeduplicateCall(db, failAt) ==
    LET tx == DedupTx(db, failAt)
    IN IF tx.err
       THEN [db |-> Rollback(db, tx), n |-> 0]
       ELSE [db |-> Commit(db, tx), n |-> Len(ToDelete(db))]

Deduplicate ==
    \E failAt \in DedupFailPoints(DB) :
        LET res == DeduplicateCall(DB, failAt)
        IN /\ posts' = res.db.posts
           /\ scores' = res.db.scores
           /\ post_also_in' = res.db.post_also_in
           /\ last' = IF res.db.err THEN Other
                      ELSE [op |-> "dedup", n |-> res.n,
                            scores |-> Cardinality(scores \ res.db.scores)]
           /\ UNCHANGED nextId
           /\ UNCHANGED <<rssVars, pullVars, tasteVars, otherVars>>

(***************************************************************************)
(* Store.PruneOld                                                          *)
(***************************************************************************)
Nows == [day : NowDays, frac : Fracs]

\* SELECT id FROM posts WHERE posted_at < ?
OlderThan(db, cutoff) == {p.id : p \in {q \in db.posts : StrLess(q.posted_at, cutoff)}}

Cutoff(retainDays, now) == formatTime(AddDate(now, 0 - retainDays))

\* statement 0 is BEGIN, 1 and 2 the DELETEs, 3 the COMMIT
PruneTx(db, cutoff, failAt) ==
    LET t0 == Exec(db, 0, failAt, db)
        t1 == Exec(t0, 1, failAt, DeleteScores(t0, OlderThan(t0, cutoff)))
        t2 == Exec(t1, 2, failAt, DeletePosts(t1, OlderThan(t1, cutoff)))
    IN Exec(t2, 3, failAt, t2)

PruneFailPoints == 0..4

PruneOldCall(db, retainDays, now, failAt) ==
    IF retainDays <= 0 THEN [db |-> db, n |-> 0]
    ELSE LET cutoff == Cutoff(retainDays, now)
             tx == PruneTx(db, cutoff, failAt)
         IN IF tx.err
            THEN [db |-> Rollback(db, tx), n |-> 0]
            ELSE [db |-> Commit(db, tx), n |-> Cardinality(OlderThan(db, cutoff))]

PruneOld ==
    \E retainDays \in RetainDays, now \in Nows, failAt \in PruneFailPoints :
        LET res == PruneOldCall(DB, retainDays, now, failAt)
        IN /\ posts' = res.db.posts
           /\ scores' = res.db.scores
           /\ post_also_in' = res.db.post_also_in
           /\ last' = Other
           /\ UNCHANGED nextId
           /\ UNCHANGED <<rssVars, pullVars, tasteVars, otherVars>>

(***************************************************************************)
(* The store: any sequence of calls on a freshly opened database           *)
(***************************************************************************)
InitStore ==
    /\ posts = {}
    /\ scores = {}
    /\ post_also_in = {}
    /\ nextId = 1
    /\ last = Other

\* no Fetch is running
NoFetch ==
    /\ feeds = <<>>
    /\ unsent = {}
    /\ domainJobs = <<>>
    /\ worker = <<>>
    /\ results = <<>>
    /\ closed = {}
    /\ fetched = <<>>
    /\ lastBy = <<>>
    /\ seen = <<>>
    /\ main = "idle"

\* pullAction is not running
NoPull == pull = <<>>

\* taste.Score has not been called
NoScore == scored = <<>>

\* taste.FindTrending has not been called
NoTrending == trending = <<>>

\* neither digestAction nor rescoreAction is running
NoRun == run = <<>>

\* runWatch has not been called
NoWatch == watch = <<>>

\* HNSource.Fetch is not running, no ingest pass was run and no Summary was
\* built
NoLate == hn = <<>> /\ ingest = <<>> /\ summ = <<>>

Init ==
    InitStore /\ NoFetch /\ NoPull /\ NoScore /\ NoTrending /\ NoRun /\ NoWatch
    /\ NoLate

Next ==
    \/ InsertPost
    \/ SaveScore
    \/ Deduplicate
    \/ PruneOld

Spec == Init /\ [][Next]_vars

(***************************************************************************)
(* Properties of the store                                                 *)
(***************************************************************************)
Tables(db) == <<db.posts, db.scores, db.post_also_in>>

UniqueHashes(rows) == \A p, q \in rows : p.text_hash = q.text_hash => p = q

AlsoIn(links, post_id) == {a \in links : a.post_id = post_id}

\* p was posted before q, ties broken by the smaller id
PostedFirst(p, q) ==
    \/ Before(parseTime(p.posted_at), parseTime(q.posted_at))
    \/ parseTime(p.posted_at) = parseTime(q.posted_at) /\ p.id < q.id

\* C1: after a Deduplicate call that returned no error, no two rows of
\* posts have the same text_hash.
C1_NoSharedHashAfterDedup == last.op = "dedup" => UniqueHashes(posts)

C1_Witness ==
    /\ last.op = "dedup"
    /\ last.n >= 1
    /\ Cardinality(posts) >= 2

\* C2: a successful Deduplicate call keeps, of every group of rows with
\* equal text_hash, exactly the row posted first (ties: smallest id) and
\* removes every other row of the group.
C2_KeeperIsPostedFirst ==
    [][last'.op = "dedup" =>
        posts' = {p \in posts : \A q \in posts :
                    (q.text_hash = p.text_hash /\ q # p) => PostedFirst(p, q)}]_vars

\* C3: a Deduplicate call made right after a successful Deduplicate call
\* returns 0 and changes no table.
C3_DedupIdempotent ==
    last.op = "dedup" =>
        \A failAt \in DedupFailPoints(DB) :
            LET again == DeduplicateCall(DB, failAt)
            IN ~again.db.err => again.n = 0 /\ Tables(again.db) = Tables(DB)

C3_Witness ==
    /\ last.op = "dedup"
    /\ last.n = 0
    /\ post_also_in # {}

\* C4: for every row a successful Deduplicate call removes, the call leaves
\* exactly one post_also_in row (keeper id, removed row's source, removed
\* row's channel), the keeper being the surviving row with the same hash.
C4_AlsoInForEveryRemoved ==
    \A failAt \in DedupFailPoints(DB) :
        LET res == DeduplicateCall(DB, failAt)
        IN ~res.db.err =>
            \A p \in posts \ res.db.posts :
                \E k \in res.db.posts :
                    /\ k.text_hash = p.text_hash
                    /\ Cardinality({a \in AlsoIn(res.db.post_also_in, k.id) :
                            a.source = p.source /\ a.channel = p.channel}) = 1

C4_Witness ==
    /\ last.op = "dedup"
    /\ last.n = 2
    /\ \E k \in posts : Cardinality(AlsoIn(post_also_in, k.id)) = 2

\* C5: posts never holds two rows with the same (source, channel,
\* external_id), and inserting an input a second time adds no row.
C5_NaturalKeyUnique ==
    /\ \A p, q \in posts : SameKey(p, q) => p = q
    /\ \A in \in ValidPostInputs :
        LET once == Upsert(posts, in, nextId)
        IN Upsert(once, in, nextId + 1) = once

C5_Witness ==
    /\ Cardinality(posts) >= 2
    /\ \E p \in posts, in \in ValidPostInputs :
        SameKey(p, in) /\ PostRow(in, p.id) # p

\* C6: every scores row refers to a row of posts, and a Deduplicate or
\* PruneOld call in which no statement fails returns no error and deletes
\* the scores rows of exactly the posts it removes.
C6_ScoresFollowPosts ==
    /\ \A s \in scores : s.post_id \in PostIds(DB)
    /\ \A failAt \in DedupFailPoints(DB) :
        LET res == DeduplicateCall(DB, failAt)
        IN /\ res.db.err => failAt <= 3 * Len(ToDelete(DB)) + 1
           /\ ~res.db.err =>
                res.db.scores = {s \in scores : s.post_id \in PostIds(res.db)}
    /\ \A retainDays \in RetainDays, now \in Nows, failAt \in PruneFailPoints :
        LET res == PruneOldCall(DB, retainDays, now, failAt)
        IN /\ res.db.err => failAt <= 3
           /\ ~res.db.err =>
                res.db.scores = {s \in scores : s.post_id \in PostIds(res.db)}

C6_Witness ==
    /\ last.op = "dedup"
    /\ last.scores >= 1
    /\ scores # {}

C8_PruneRemovesExactlyOlder ==
    \A retainDays \in RetainDays, now \in Nows :
        LET res == PruneOldCall(DB, retainDays, now, 4)
            cutoff == AddDate(now, 0 - retainDays)
        IN retainDays > 0 =>
            /\ res.db.posts = {p \in posts : ~Before(parseTime(p.posted_at), cutoff)}
            /\ res.n = Cardinality(posts \ res.db.posts)

(***************************************************************************)
(* The web-feed fetcher: RSSSource.Fetch (internal/source/rss.go)          *)
(***************************************************************************)
MaxFeeds == 3       \* feed URLs configured for one source

rssMaxWorkers == 10
rssMaxRetries == 3
rssDomainDelay == 3     \* seconds

\* the feed URLs a configuration may list: two on host a, one on port 5000
\* of host b and one relative reference, which has no host
URLs == {"http://a/1", "http://a/2", "https://b:5000/1", "feed.xml"}

\* url.Parse(feedURL).Host
Host(feedURL) ==
    CASE feedURL = "http://a/1" -> "a"
      [] feedURL = "http://a/2" -> "a"
      [] feedURL = "https://b:5000/1" -> "b:5000"
      [] OTHER -> ""

Hosts == {Host(u) : u \in URLs} \ {""}

FeedLists == UNION {[1..n -> URLs] : n \in 1..MaxFeeds}

feedDomainWholeURL(feedURL) == feedURL

feedDomain(feedURL) ==
    IF Host(feedURL) = "" THEN feedURL ELSE Host(feedURL)

\* the keys and the values of the map domainFeeds
Domains(fs) == {feedDomain(fs[k]) : k \in 1..Len(fs)}

RECURSIVE DomainFeeds(_, _)
DomainFeeds(fs, d) ==
    IF fs = <<>> THEN <<>>
    ELSE IF feedDomain(Head(fs)) = d
         THEN <<Head(fs)>> \o DomainFeeds(Tail(fs), d)
         ELSE DomainFeeds(Tail(fs), d)

WorkersPerDomain(fs) == 1..Cardinality(Domains(fs))

Workers(fs) == 1..Min(rssMaxWorkers, Cardinality(Domains(fs)))

\* what ParseURLWithContext returns to fetchFeed: nil, or an error with this
\* text ("http error: 503 Service Unavailable", "http error: 404 Not Found");
\* for a URL without a host the HTTP client's "unsupported protocol scheme"
Causes == {"nil", "503", "404"}

NoHostCause == "unsupported protocol scheme"

Nil == [url |-> "", cause |-> "nil"]

\* fmt.Errorf("fetch %s: %w", feedURL, err): the error fetchFeed returns
\* carries the feed URL in its text
FetchError(feedURL, cause) ==
    IF cause = "nil" THEN Nil ELSE [url |-> feedURL, cause |-> cause]

\* strings.Contains(text, pattern), for the patterns isRetryableError looks
\* for and the texts of the model
Contains(text, pattern) ==
    CASE text = "https://b:5000/1" -> pattern = "500"
      [] text = "503" -> pattern = "503"
      [] OTHER -> FALSE

RetryPatterns == {"timeout", "Timeout", "connection refused", "no such host",
                  "500", "502", "503", "504"}

\* s := err.Error() is "fetch <url>: <cause>"
isRetryableError(err) ==
    /\ err # Nil
    /\ \E pattern \in RetryPatterns :
          Contains(err.url, pattern) \/ Contains(err.cause, pattern)

\* time.Duration(1<<uint(attempt)) * time.Second
Backoff(attempt) == 2 ^ attempt

DomainDelayAfterSecond(i) == IF i > 1 THEN rssDomainDelay ELSE 0

\* if i > 0 { rssSleepFunc(rssDomainDelay) }
DomainDelay(i) == IF i > 0 THEN rssDomainDelay ELSE 0

\* a goroutine blocked on, or about to execute, "for feeds := range domainJobs"
Receiving == [pc |-> "recv", job |-> <<>>, i |-> 0, attempt |-> 0, lastErr |-> Nil,
              slept |-> 0, gap |-> 0, first |-> FALSE]

\* "for i, feedURL := range feeds" reaches index i of the worker's job
Range(wr, i) ==
    IF i >= Len(wr.job)
    THEN [wr EXCEPT !.pc = "recv", !.i = 0, !.job = <<>>, !.attempt = 0,
                    !.lastErr = Nil]
    ELSE [wr EXCEPT !.pc = "attempt", !.i = i, !.attempt = 0, !.lastErr = Nil,
                    !.slept = @ + DomainDelay(i)]

FeedURL(wr) == wr.job[wr.i + 1]

\* fetchWithRetry returns after fetchFeed returned err on this attempt
Returns(attempt, err) ==
    \/ err = Nil
    \/ ~isRetryableError(err)
    \/ attempt + 1 >= rssMaxRetries

Inc(bag, u) == [bag EXCEPT ![u] = @ + 1]

\* the worker that was at wr is now at next: fetchWithRetry was called on a
\* further feed URL unless the job is finished
Called(tried, wr, next) ==
    IF next.pc = "attempt" /\ (next.i # wr.i \/ next.job # wr.job)
    THEN Inc(tried, FeedURL(next)) ELSE tried

\* fetchFeed returned the error of this cause to worker w: fetchWithRetry
\* sleeps and goes round its loop again, or it returns and the worker sends
\* the result (the channel has room for one result per feed) and moves on to
\* its next feed
FetchFeedReturned(w, cause) ==
    LET wr == [worker[w] EXCEPT !.gap = 0, !.first = FALSE]
        err == FetchError(FeedURL(wr), cause)
        next == Range(wr, wr.i + 1)
    IN IF Returns(wr.attempt, err)
       THEN /\ results' = Append(results, [url |-> FeedURL(wr), err |-> err # Nil])
            /\ worker' = [worker EXCEPT ![w] = next]
            /\ seen' = [seen EXCEPT
                           !.tried = Called(@, wr, next),
                           !.succeeded = IF err = Nil THEN Inc(@, FeedURL(wr)) ELSE @]
       ELSE /\ worker' = [worker EXCEPT
                             ![w] = [wr EXCEPT !.attempt = @ + 1,
                                               !.pc = "attempt",
                                               !.lastErr = err,
                                               !.slept = @ + Backoff(wr.attempt)]]
            /\ UNCHANGED <<results, seen>>

\* for _, feeds := range domainFeeds { domainJobs <- feeds }; a map is ranged
\* over in no particular order, and the channel has room for every group
SendJob ==
    /\ main = "push"
    /\ \E d \in unsent :
        /\ domainJobs' = Append(domainJobs, DomainFeeds(feeds, d))
        /\ unsent' = unsent \ {d}
    /\ UNCHANGED <<feeds, worker, results, closed, fetched, lastBy, seen, main>>
    /\ UNCHANGED <<storeVars, pullVars, tasteVars, otherVars>>

CloseJobsForgotten ==
    /\ main = "push"
    /\ unsent = {}
    /\ main' = "collect"
    /\ UNCHANGED <<feeds, unsent, domainJobs, worker, results, closed, fetched, lastBy, seen>>
    /\ UNCHANGED <<storeVars, pullVars, tasteVars, otherVars>>

\* close(domainJobs), then the goroutine that closes results is started
CloseJobs ==
    /\ main = "push"
    /\ unsent = {}
    /\ closed' = closed \cup {"domainJobs"}
    /\ main' = "collect"
    /\ UNCHANGED <<feeds, unsent, domainJobs, worker, results, fetched, lastBy, seen>>
    /\ UNCHANGED <<storeVars, pullVars, tasteVars, otherVars>>

\* for feeds := range domainJobs: the next group, or the end of the loop and
\* wg.Done() once the channel is closed and empty
ReceiveJob(w) ==
    /\ worker[w].pc = "recv"
    /\ IF domainJobs # <<>>
       THEN /\ worker' = [worker EXCEPT
                             ![w] = Range([@ EXCEPT !.job = Head(domainJobs)], 0)]
            /\ domainJobs' = Tail(domainJobs)
            /\ seen' = [seen EXCEPT !.tried = Called(@, worker[w], worker'[w])]
       ELSE /\ "domainJobs" \in closed
            /\ worker' = [worker EXCEPT ![w].pc = "done"]
            /\ UNCHANGED <<domainJobs, seen>>
    /\ UNCHANGED <<feeds, unsent, results, closed, fetched, lastBy, main>>
    /\ UNCHANGED <<storeVars, pullVars, tasteVars, otherVars>>

\* fetchFeed sends the request.  A URL without a host is never sent: the
\* HTTP client rejects it, and fetchFeed returns that error at once.
StartRequest(w) ==
    /\ worker[w].pc = "attempt"
    /\ LET wr == worker[w]
           h == Host(FeedURL(wr))
       IN IF h = ""
          THEN /\ FetchFeedReturned(w, NoHostCause)
               /\ UNCHANGED lastBy
          ELSE /\ worker' = [worker EXCEPT
                                ![w] = [wr EXCEPT
                                           !.pc = "inflight",
                                           !.first = (lastBy[h] = 0),
                                           !.gap = IF lastBy[h] = w THEN wr.slept ELSE 0,
                                           !.slept = 0]]
               /\ lastBy' = [lastBy EXCEPT ![h] = w]
               /\ UNCHANGED <<results, seen>>
    /\ UNCHANGED <<feeds, unsent, domainJobs, closed, fetched, main>>
    /\ UNCHANGED <<storeVars, pullVars, tasteVars, otherVars>>

\* the response, an error or the timeout arrives: fetchFeed returns
EndRequest(w) ==
    /\ worker[w].pc = "inflight"
    /\ \E cause \in Causes : FetchFeedReturned(w, cause)
    /\ UNCHANGED <<feeds, unsent, domainJobs, closed, fetched, lastBy, main>>
    /\ UNCHANGED <<storeVars, pullVars, tasteVars, otherVars>>

\* go func() { wg.Wait(); close(results) }()
CloseResults ==
    /\ main = "collect"
    /\ "results" \notin closed
    /\ \A w \in DOMAIN worker : worker[w].pc = "done"
    /\ closed' = closed \cup {"results"}
    /\ UNCHANGED <<feeds, unsent, domainJobs, worker, results, fetched, lastBy, seen, main>>
    /\ UNCHANGED <<storeVars, pullVars, tasteVars, otherVars>>

CollectedLast(collected, r) ==
    IF r.err THEN collected ELSE <<r.url>>

\* if r.err != nil { print; continue }; posts = append(posts, r.posts...)
Collected(collected, r) ==
    IF r.err THEN collected ELSE Append(collected, r.url)

\* return posts, nil
FetchReturn == [posts |-> fetched, err |-> Nil]

\* for r := range results: a failed feed is printed and skipped, the posts of
\* the others are appended (one post per feed, named by the feed's URL);
\* the loop ends, and Fetch returns, when the channel is closed and empty
Collect ==
    /\ main = "collect"
    /\ IF results # <<>>
       THEN /\ fetched' = Collected(fetched, Head(results))
            /\ results' = Tail(results)
            /\ seen' = [seen EXCEPT !.collected = Inc(@, Head(results).url)]
            /\ UNCHANGED main
       ELSE /\ "results" \in closed
            /\ main' = "done"
            /\ UNCHANGED <<results, fetched, seen>>
    /\ UNCHANGED <<feeds, unsent, domainJobs, worker, closed, lastBy>>
    /\ UNCHANGED <<storeVars, pullVars, tasteVars, otherVars>>

\* Fetch is called on a source NewRSS accepted (at least one feed URL); the
\* workers are started before the first group is sent
InitRSS ==
    /\ InitStore
    /\ NoPull
    /\ NoScore
    /\ NoTrending
    /\ NoRun
    /\ NoWatch
    /\ NoLate
    /\ feeds \in FeedLists
    /\ unsent = Domains(feeds)
    /\ domainJobs = <<>>
    /\ worker = [w \in Workers(feeds) |-> Receiving]
    /\ results = <<>>
    /\ closed = {}
    /\ fetched = <<>>
    /\ lastBy = [h \in Hosts |-> 0]
    /\ seen = [tried |-> [u \in URLs |-> 0],
               succeeded |-> [u \in URLs |-> 0],
               collected |-> [u \in URLs |-> 0]]
    /\ main = "push"

NextRSS ==
    \/ SendJob
    \/ CloseJobs
    \/ \E w \in DOMAIN worker : ReceiveJob(w)
    \/ \E w \in DOMAIN worker : StartRequest(w)
    \/ \E w \in DOMAIN worker : EndRequest(w)
    \/ CloseResults
    \/ Collect

SpecRSS == InitRSS /\ [][NextRSS]_vars

\* the scheduler runs a goroutine that can take a step, and every request
\* returns (the client's timeout is rssFetchTimeout)
FairSpecRSS == SpecRSS /\ WF_vars(NextRSS)

(***************************************************************************)
(* Properties of the fetcher                                               *)
(***************************************************************************)
InFlight == {w \in DOMAIN worker : worker[w].pc = "inflight"}

\* C9: feeds on one host are fetched one after another: no two requests to
\* the same host are in flight at the same time.
C9_OneRequestPerHost ==
    \A w1 \in InFlight, w2 \in InFlight :
        w1 # w2 => Host(FeedURL(worker[w1])) # Host(FeedURL(worker[w2]))

\* a second feed of a host is being requested while a request to another
\* host is in flight as well
C9_Witness ==
    \E w1 \in InFlight, w2 \in InFlight :
        /\ w1 # w2
        /\ worker[w1].i > 0
        /\ ~worker[w1].first
        /\ FeedURL(worker[w1]) # worker[w1].job[1]

\* C10 as stated: every request to a host that is not the first one to it
\* follows the previous one after at least 3 s of sleep.
C10_DelayBetweenAnyTwoRequests ==
    \A w \in InFlight :
        ~worker[w].first => worker[w].gap >= rssDomainDelay

\* C10 as amended: the first request for a feed follows the last request for
\* the previous feed of the same host after at least 3 s of sleep; a retry
\* follows the failed attempt after 1 s (first retry) or 2 s (second retry).
C10_DelayBetweenFeeds ==
    \A w \in InFlight :
        ~worker[w].first =>
            /\ worker[w].attempt = 0 => worker[w].gap >= 3
            /\ worker[w].attempt = 1 => worker[w].gap = 1
            /\ worker[w].attempt = 2 => worker[w].gap = 2
            /\ worker[w].attempt <= 2

\* the first request for a third feed of a host is in flight, after the feed
\* before it was given up following two retries
C10_Witness ==
    \E w \in InFlight :
        /\ worker[w].i = 2
        /\ worker[w].attempt = 0
        /\ worker[w].gap = 3
        /\ worker[w].job[2] # worker[w].job[3]
        /\ \E k \in 1..Len(results) :
              /\ results[k].url = worker[w].job[2]
              /\ results[k].err

\* the retryable errors of the retry policy: timeouts, connection refused,
\* DNS failure, HTTP 500/502/503/504; a 404 or a parse error is not one
RetryableCauses == {"timeout", "connection refused", "no such host",
                    "500", "502", "503", "504"}

\* worker w goes round the loop of fetchWithRetry in this step
Retries(w) ==
    /\ worker'[w].pc = "attempt"
    /\ worker'[w].attempt = worker[w].attempt + 1

\* worker w leaves fetchWithRetry in this step
Leaves(w) ==
    /\ worker'[w] # worker[w]
    /\ worker[w].pc \in {"attempt", "inflight"}
    /\ worker'[w].pc \in {"attempt", "recv"}
    /\ worker'[w].attempt = 0

\* C11: a feed is attempted at most 3 times; the first failed attempt is
\* followed by a sleep of 1 s, the second by one of 2 s, the last attempt by
\* none (the only sleep before the worker's next request is the domain
\* delay of its next feed); an attempt follows only a retryable error.
C11_RetryPolicy ==
    [][\A w \in DOMAIN worker :
          /\ worker'[w].attempt < 3
          /\ Retries(w) =>
                /\ worker[w].attempt = 0 => worker'[w].slept = worker[w].slept + 1
                /\ worker[w].attempt = 1 => worker'[w].slept = worker[w].slept + 2
                /\ worker'[w].lastErr.cause \in RetryableCauses
          /\ Leaves(w) =>
                worker'[w].slept = worker[w].slept
                                     + (IF worker'[w].pc = "attempt" THEN 3 ELSE 0)]_vars

\* C12: an attempt that fails with a non-retryable error (404, a parse
\* error) is the only attempt for its feed: no worker is in a second or
\* third attempt after such an error.
C12_PermanentErrorNotRetried ==
    \A w \in DOMAIN worker :
        worker[w].attempt > 0 => worker[w].lastErr.cause \in RetryableCauses

Count(seq, u) == Cardinality({k \in 1..Len(seq) : seq[k] = u})

\* C13: whatever feeds failed, Fetch returns no error, and the posts it
\* returns are those of every feed whose fetch succeeded, once per success.
C13_FailedFeedDoesNotFailBatch ==
    main = "done" =>
        /\ FetchReturn.err = Nil
        /\ \A u \in URLs : Count(FetchReturn.posts, u) = seen.succeeded[u]

\* Fetch has returned after one feed failed and two others succeeded
C13_Witness ==
    /\ main = "done"
    /\ \E u \in URLs : seen.collected[u] > seen.succeeded[u]
    /\ Len(FetchReturn.posts) = 2

\* C14: provided every request returns, Fetch returns, and by then
\* fetchWithRetry was called once for every configured feed URL and one
\* result per feed was received.
C14_FetchTerminates ==
    <>(/\ main = "done"
       /\ \A w \in DOMAIN worker : worker[w].pc = "done"
       /\ results = <<>>
       /\ \A u \in URLs : /\ seen.tried[u] = Count(feeds, u)
                          /\ seen.collected[u] = Count(feeds, u))

\* Fetch has returned after three workers fetched three feeds
C14_Witness ==
    /\ main = "done"
    /\ Len(feeds) = 3
    /\ Cardinality(DOMAIN worker) = 3
    /\ \A u \in URLs : seen.collected[u] = Count(feeds, u)

(***************************************************************************)
(* The ingest pass: pullAction (internal/cli/pull.go)                      *)
(***************************************************************************)
MaxBatch == 2       \* posts one Fetch returns

\* the sources pullAction builds, in this order, each if it is configured
SourceOrder == <<"telegram", "rss", "reddit", "forgeplan">>

RECURSIVE SubSeqs(_)
SubSeqs(seq) ==
    IF seq = <<>> THEN {<<>>}
    ELSE LET rest == SubSeqs(Tail(seq))
         IN rest \cup {<<Head(seq)>> \o r : r \in rest}

SourceLists == SubSeqs(SourceOrder)

RedactedPlaceholder == <<91, 82, 69, 68, 65, 67, 84, 69, 68, 93>>   \* [REDACTED]

\* the configured redact patterns: none, or the one pattern "a"
RedactPatterns == {<<>>, <<97>>}

\* re.ReplaceAllString(text, redactedPlaceholder) for a pattern of one letter
RECURSIVE ReplaceAll(_, _)
ReplaceAll(text, c) ==
    IF text = <<>> THEN <<>>
    ELSE (IF Head(text) = c THEN RedactedPlaceholder ELSE <<Head(text)>>)
            \o ReplaceAll(Tail(text), c)

\* privacy.Apply
RECURSIVE Apply(_, _)
Apply(text, patterns) ==
    IF patterns = <<>> THEN text
    ELSE Apply(ReplaceAll(text, Head(patterns)), Tail(patterns))

\* since, and the time of an item newer than it; an item of day 0 is older
\* the clock during one run of pullAction
PullNow == [day |-> 2, frac |-> 0]

\* cfg.Digest.Since, in days
DigestSinces == {1, 2}

PullSinceRetain(cfg, now) == AddDate(now, 0 - cfg.retainDays)

\* since := time.Now().Add(-cfg.Digest.Since.Duration)
PullSince(cfg, now) == AddDate(now, 0 - cfg.since)
ItemTime == [day |-> 1, frac |-> 0]
OldTime == [day |-> 0, frac |-> 1]

\* a *time.Time that is nil
NilTime == [day |-> 0 - 1, frac |-> 0]

\* gofeed items: with GUID and link, with a link only, with neither, and
\* without any date; text is what itemText makes of title and content
FeedItems ==
    LET item == [guid |-> "1", link |-> "l", text |-> <<97>>,
                 published |-> ItemTime, updated |-> NilTime]
    IN {item,
        [item EXCEPT !.guid = "", !.published = NilTime, !.updated = ItemTime],
        [item EXCEPT !.guid = "", !.link = ""],
        [item EXCEPT !.published = NilTime]}

itemPublishedTime(item) ==
    IF item.published # NilTime THEN item.published
    ELSE IF item.updated # NilTime THEN item.updated
    ELSE ZeroTime

feedLabel(title, feedURL) == IF title # "" THEN title ELSE feedURL

itemID(item) == IF item.guid # "" THEN item.guid ELSE item.link

RECURSIVE postsFromFeed(_, _, _, _)
postsFromFeed(items, title, feedURL, since) ==
    IF items = <<>> THEN <<>>
    ELSE LET item == Head(items)
             postedAt == itemPublishedTime(item)
             rest == postsFromFeed(Tail(items), title, feedURL, since)
         IN IF IsZero(postedAt) \/ Before(postedAt, since) THEN rest
            ELSE <<[source |-> "rss", channel |-> feedLabel(title, feedURL),
                    external_id |-> itemID(item), text |-> item.text,
                    posted_at |-> postedAt]>> \o rest

\* lines of the collector's output, decoded: a full message, one without
\* msg_id, and one whose date time.Parse rejects
Messages ==
    LET msg == [channel |-> "c1", msg_id |-> "1", text |-> <<97>>, date |-> ItemTime]
    IN {msg, [msg EXCEPT !.msg_id = ""], [msg EXCEPT !.date = NilTime],
        [msg EXCEPT !.msg_id = "2", !.text = <<>>]}

RECURSIVE parseJSONL(_)
parseJSONL(msgs) ==
    IF msgs = <<>> THEN [posts |-> <<>>, err |-> FALSE]
    ELSE LET msg == Head(msgs)
             rest == parseJSONL(Tail(msgs))
         IN IF msg.date = NilTime \/ rest.err THEN [posts |-> <<>>, err |-> TRUE]
            ELSE [posts |-> <<[source |-> "telegram", channel |-> msg.channel,
                               external_id |-> msg.msg_id, text |-> msg.text,
                               posted_at |-> msg.date]>> \o rest.posts,
                  err |-> FALSE]

\* children of a listing: a full one, one without id, and an old one
Children ==
    LET child == [id |-> "1", title |-> <<97>>, created |-> ItemTime]
    IN {child, [child EXCEPT !.id = ""], [child EXCEPT !.created = OldTime]}

RECURSIVE postsFromListing(_, _, _)
postsFromListing(children, subreddit, since) ==
    IF children = <<>> THEN <<>>
    ELSE LET c == Head(children)
             rest == postsFromListing(Tail(children), subreddit, since)
         IN IF Before(c.created, since) THEN rest
            ELSE <<[source |-> "reddit", channel |-> subreddit,
                    external_id |-> c.id, text |-> c.title,
                    posted_at |-> c.created]>> \o rest

\* fmt.Sprintf("action-%d", a.Number)
ActionID(number) == IF number = 1 THEN "action-1" ELSE "action-n"

Actions == {[number |-> 1, description |-> <<97>>]}

RECURSIVE postsFromActions(_, _)
postsFromActions(actions, now) ==
    IF actions = <<>> THEN <<>>
    ELSE <<[source |-> "forgeplan", channel |-> "forge-plan",
            external_id |-> ActionID(Head(actions).number),
            text |-> Head(actions).description, posted_at |-> now]>>
         \o postsFromActions(Tail(actions), now)

UpTo(set) == UNION {[1..n -> set] : n \in 0..MaxBatch}

\* the slices of posts the Fetch of a source may return with a nil error
Batches(name, since) ==
    CASE name = "rss" ->
            {postsFromFeed(items, "c1", "http://a/1", since) : items \in UpTo(FeedItems)}
      [] name = "telegram" ->
            {parseJSONL(msgs).posts :
                msgs \in {m \in UpTo(Messages) : ~parseJSONL(m).err}}
      [] name = "reddit" ->
            {postsFromListing(children, "c1", since) : children \in UpTo(Children)}
      [] name = "forgeplan" ->
            {postsFromActions(actions, PullNow) : actions \in UpTo(Actions)}

\* the store.PostInput pullAction builds from a fetched post
PullInput(p, cfg) ==
    LET text == IF Len(cfg.redact) > 0 THEN Apply(p.text, cfg.redact) ELSE p.text
    IN [source |-> p.source, channel |-> p.channel, external_id |-> p.external_id,
        text |-> IF cfg.storeFullText THEN text ELSE <<>>,
        snippet |-> IF cfg.storeFullText THEN <<>> ELSE firstNRunes(text, SnippetRunes),
        posted_at |-> p.posted_at, fetched_at |-> PullNow]

PullConfigs ==
    [sources : SourceLists, storeFullText : BOOLEAN, redact : RedactPatterns,
     retainDays : RetainDays, since : DigestSinces]

\* pullAction before its loop over the sources
Starting(cfg) ==
    [cfg |-> cfg, pc |-> "fetch", i |-> 1, batch |-> <<>>, err |-> "nil",
     since |-> PullSince(cfg, PullNow),
     totalInserted |-> 0, channels |-> {},
     fetchFailed |-> {}, inserted |-> {}, storeFailed |-> FALSE, ran |-> {},
     calls |-> <<>>, steps |-> <<>>, rejected |-> <<>>]

NextSourceSkipsDedup(pl, i) ==
    IF i > Len(pl.cfg.sources)
    THEN [pl EXCEPT !.pc = "prune", !.i = i, !.batch = <<>>]
    ELSE [pl EXCEPT !.pc = "fetch", !.i = i, !.batch = <<>>]

\* "for _, src := range sources" moves on to source i
NextSource(pl, i) ==
    IF i > Len(pl.cfg.sources)
    THEN [pl EXCEPT !.pc = "dedup", !.i = i, !.batch = <<>>]
    ELSE [pl EXCEPT !.pc = "fetch", !.i = i, !.batch = <<>>]

FetchErrorReturns(pl) == [pl EXCEPT !.pc = "done", !.err = "fetch"]

\* if err != nil { fmt.Printf("warning: ..."); continue }
FetchErrorContinues(pl) ==
    NextSource([pl EXCEPT !.fetchFailed = @ \cup {pl.cfg.sources[pl.i]}], pl.i + 1)

\* posts, err := src.Fetch(since)
PullFetch ==
    /\ pull # <<>>
    /\ pull.pc = "fetch"
    /\ IF pull.i > Len(pull.cfg.sources)
       THEN pull' = NextSource(pull, pull.i)
       ELSE LET pl == [pull EXCEPT !.calls = Append(@, [source |-> pull.cfg.sources[pull.i],
                                                        since |-> pull.since])]
            IN \/ pull' = FetchErrorContinues(pl)
               \/ \E batch \in Batches(pl.cfg.sources[pl.i], pl.since) :
                     pull' = IF batch = <<>> THEN NextSource(pl, pl.i + 1)
                             ELSE [pl EXCEPT !.pc = "insert", !.batch = batch]
    /\ UNCHANGED <<storeVars, rssVars, tasteVars, otherVars>>

InsertErrorRollsBack(db, start) == start

\* return fmt.Errorf("insert post: %w", err): no transaction spans the pass
InsertErrorReturns(db, start) == db

Key(in) == <<in.source, in.channel, in.external_id>>

\* the body of "for _, p := range posts": db.InsertPost fails on an input it
\* rejects or on an error of the database, and succeeds otherwise
PullInsert ==
    /\ pull # <<>>
    /\ pull.pc = "insert"
    /\ LET p == Head(pull.batch)
           in == PullInput(p, pull.cfg)
           pl == [pull EXCEPT !.channels = @ \cup {p.channel}]
       IN \E dbFails \in BOOLEAN :
            IF InsertPostInvalid(in) \/ dbFails
            THEN LET db == InsertErrorReturns(DB, [DB EXCEPT !.posts = {}])
                 IN /\ pull' = [pl EXCEPT !.pc = "done", !.err = "insert post",
                                          !.storeFailed = TRUE,
                                          !.rejected = IF InsertPostInvalid(in)
                                                       THEN <<p>> ELSE <<>>]
                    /\ posts' = db.posts
                    /\ UNCHANGED <<scores, post_also_in, nextId>>
            ELSE /\ (\E q \in posts : SameKey(q, in)) \/ nextId <= MaxId
                 /\ posts' = Upsert(posts, in, nextId)
                 /\ nextId' = IF \E q \in posts' : q.id = nextId
                              THEN nextId + 1 ELSE nextId
                 /\ pull' = LET done == [pl EXCEPT !.totalInserted = @ + 1,
                                                   !.inserted = @ \cup {Key(in)},
                                                   !.steps = Append(@, "insert"),
                                                   !.batch = Tail(@)]
                            IN IF done.batch = <<>> THEN NextSource(done, done.i + 1)
                               ELSE done
                 /\ UNCHANGED <<scores, post_also_in>>
    /\ last' = Other
    /\ UNCHANGED <<rssVars, tasteVars, otherVars>>

\* dupes, err := db.Deduplicate(ctx)
PullDeduplicate ==
    /\ pull # <<>>
    /\ pull.pc = "dedup"
    /\ \E failAt \in DedupFailPoints(DB) :
        LET res == DeduplicateCall(DB, failAt)
        IN /\ posts' = res.db.posts
           /\ scores' = res.db.scores
           /\ post_also_in' = res.db.post_also_in
           /\ pull' = IF res.db.err
                      THEN [pull EXCEPT !.pc = "done", !.err = "deduplicate",
                                        !.storeFailed = TRUE, !.ran = @ \cup {"dedup"},
                                        !.steps = Append(@, "dedup")]
                      ELSE [pull EXCEPT !.pc = "prune", !.ran = @ \cup {"dedup"},
                                        !.steps = Append(@, "dedup")]
    /\ last' = Other
    /\ UNCHANGED <<nextId, rssVars, tasteVars, otherVars>>

\* pruned, err := db.PruneOld(ctx, cfg.Storage.RetainDays)
PullPruneOld ==
    /\ pull # <<>>
    /\ pull.pc = "prune"
    /\ \E now \in Nows, failAt \in PruneFailPoints :
        LET res == PruneOldCall(DB, pull.cfg.retainDays, now, failAt)
        IN /\ posts' = res.db.posts
           /\ scores' = res.db.scores
           /\ post_also_in' = res.db.post_also_in
           /\ pull' = IF res.db.err
                      THEN [pull EXCEPT !.pc = "done", !.err = "prune old",
                                        !.storeFailed = TRUE, !.ran = @ \cup {"prune"},
                                        !.steps = Append(@, "prune")]
                      ELSE [pull EXCEPT !.pc = "done", !.ran = @ \cup {"prune"},
                                        !.steps = Append(@, "prune")]
    /\ last' = Other
    /\ UNCHANGED <<nextId, rssVars, tasteVars, otherVars>>

\* store.Open gave a fresh database; the configuration is loaded
InitPull ==
    /\ InitStore
    /\ NoFetch
    /\ NoScore
    /\ NoTrending
    /\ NoRun
    /\ NoWatch
    /\ NoLate
    /\ \E cfg \in PullConfigs : pull = Starting(cfg)

NextPull ==
    \/ PullFetch
    \/ PullInsert
    \/ PullDeduplicate
    \/ PullPruneOld

SpecPull == InitPull /\ [][NextPull]_vars

(***************************************************************************)
(* Properties of the ingest pass                                           *)
(***************************************************************************)
\* C15: a Fetch that returns an error never ends the pass: unless a store
\* call fails, the pass visits every configured source, runs Deduplicate
\* and PruneOld and returns no error.
C15_FetchErrorDoesNotFailPass ==
    /\ pull.err # "nil" => pull.storeFailed
    /\ (pull.pc = "done" /\ ~pull.storeFailed) =>
          /\ pull.err = "nil"
          /\ pull.i = Len(pull.cfg.sources) + 1
          /\ pull.ran = {"dedup", "prune"}

\* the pass returned no error after telegram's Fetch failed and the posts
\* of rss, the next source, were inserted
C15_Witness ==
    /\ pull.pc = "done"
    /\ pull.err = "nil"
    /\ pull.fetchFailed = {"telegram"}
    /\ <<"rss", "c1", "1">> \in pull.inserted
    /\ pull.ran = {"dedup", "prune"}

\* C16: an error of InsertPost ends the pass with that error, before
\* Deduplicate and PruneOld, and the posts inserted earlier in the pass are
\* still in the store.
C16_InsertErrorFailsPassKeepsPosts ==
    pull.err = "insert post" =>
        /\ pull.pc = "done"
        /\ pull.ran = {}
        /\ \A key \in pull.inserted :
              \E p \in posts : <<p.source, p.channel, p.external_id>> = key
        /\ Cardinality(posts) = Cardinality(pull.inserted)

\* the pass failed on its third post after inserting two
C16_Witness ==
    /\ pull.err = "insert post"
    /\ pull.totalInserted = 2
    /\ Cardinality(posts) = 2

\* C17: every post a Fetch returned has a non-empty source, channel and
\* external_id and a non-zero posted_at.
C17_FetchedPostsHaveKey ==
    \A k \in 1..Len(pull.batch) :
        LET p == pull.batch[k]
        IN /\ p.source # ""
           /\ p.channel # ""
           /\ p.external_id # ""
           /\ ~IsZero(p.posted_at)

(***************************************************************************)
(* taste.Score and the commands that store its result                      *)
(* Texts, keywords and labels are sequences of character codes:            *)
(* 65 'A', 66 'B', 97 'a', 98 'b', 99 'c', 110 'n', 111 'o'.               *)
(***************************************************************************)
MaxPosts == 2       \* posts in the database the scoring commands read

\* strings.ToLower, on ASCII
ToLower(s) == [i \in 1..Len(s) |-> IF s[i] \in 65..90 THEN s[i] + 32 ELSE s[i]]

\* strings.Contains(s, substr) on texts
ContainsText(s, substr) ==
    \E i \in 0..(Len(s) - Len(substr)) : SubSeq(s, i + 1, i + Len(substr)) = substr

\* config.Weights.HighSignal: keyword -> weight
HighSignals == {<<>>, (<<97>> :> 3), (<<97>> :> 3) @@ (<<66>> :> 5)}

\* config.Weights.LowSignal
LowSignals == {<<>>, (<<98>> :> -4)}

\* config.Rule
RuleCerts == [If |-> [ContainsAny |-> <<<<99>>, <<97>>>>],
              Then |-> [ScoreAdd |-> 4, Labels |-> <<<<111>>, <<99>>>>]]
RuleNoise == [If |-> [ContainsAny |-> <<<<98>>>>],
              Then |-> [ScoreAdd |-> -6, Labels |-> <<<<110>>, <<111>>>>]]

RuleLists == {<<>>, <<RuleCerts>>, <<RuleCerts, RuleNoise>>}

\* config.Thresholds: the one of the tests, one with a skim threshold of
\* zero, and the zero value
ThresholdSets ==
    {[ReadNow |-> 7, Skim |-> 3, Ignore |-> 0],
     [ReadNow |-> 1, Skim |-> 0, Ignore |-> -1],
     [ReadNow |-> 0, Skim |-> 0, Ignore |-> 0]}

\* config.TasteProfile
Profiles ==
    [Weights : [HighSignal : HighSignals, LowSignal : LowSignals],
     Rules : RuleLists, Thresholds : ThresholdSets]

\* validateTaste returns nil
validateTaste(tp) ==
    /\ ~(tp.Thresholds.ReadNow <= tp.Thresholds.Skim)
    /\ ~(tp.Thresholds.Skim <= tp.Thresholds.Ignore)

\* the orders in which "range" can yield the keys of a map
Orders(weights) ==
    {order \in [1..Cardinality(DOMAIN weights) -> DOMAIN weights] :
        \A i, j \in DOMAIN order : i # j => order[i] # order[j]}

\* Score's local variables total, labels and explanation
NoHits == [total |-> 0, labels |-> <<>>, explanation |-> <<>>]

\* the body of "if strings.Contains(textLower, strings.ToLower(kw))"
KeywordHitUnexplained(acc, kw, weight) == [acc EXCEPT !.total = @ + weight]

KeywordHit(acc, kw, weight) ==
    [acc EXCEPT !.total = @ + weight,
                !.explanation = Append(@, [Reason |-> <<"keyword: ", kw>>,
                                           Points |-> weight])]

\* for kw, weight := range weights, the map yielding its keys in this order
RECURSIVE Keywords(_, _, _, _)
Keywords(acc, textLower, weights, order) ==
    IF order = <<>> THEN acc
    ELSE LET kw == Head(order)
             hit == IF ContainsText(textLower, ToLower(kw))
                    THEN KeywordHit(acc, kw, weights[kw])
                    ELSE acc
         IN Keywords(hit, textLower, weights, Tail(order))

ruleMatches(textLower, cond) ==
    \E k \in 1..Len(cond.ContainsAny) :
        ContainsText(textLower, ToLower(cond.ContainsAny[k]))

\* the body of "if ruleMatches(textLower, rule.If)"
RuleHit(acc, rule) ==
    LET reason == IF Len(rule.If.ContainsAny) > 0
                  THEN <<"rule: ", rule.If.ContainsAny[1]>>
                  ELSE <<"rule">>
    IN [acc EXCEPT !.total = @ + rule.Then.ScoreAdd,
                   !.labels = @ \o rule.Then.Labels,
                   !.explanation = Append(@, [Reason |-> reason,
                                              Points |-> rule.Then.ScoreAdd])]

\* for _, rule := range profile.Rules
RECURSIVE Rules(_, _, _)
Rules(acc, textLower, rules) ==
    IF rules = <<>> THEN acc
    ELSE Rules(IF ruleMatches(textLower, Head(rules).If)
               THEN RuleHit(acc, Head(rules)) ELSE acc,
               textLower, Tail(rules))

\* slices.Compact: consecutive equal elements become one
RECURSIVE Compact(_)
Compact(s) ==
    IF Len(s) < 2 THEN s
    ELSE IF s[1] = s[2] THEN Compact(Tail(s))
    ELSE <<s[1]>> \o Compact(Tail(s))

TierReadNow == "read_now"
TierSkim == "skim"
TierIgnore == "ignore"

assignTierAboveThreshold(score, t) ==
    IF score > t.ReadNow THEN TierReadNow
    ELSE IF score > t.Skim THEN TierSkim
    ELSE TierIgnore

assignTierNeverIgnore(score, t) ==
    IF score >= t.ReadNow THEN TierReadNow
    ELSE TierSkim

assignTier(score, t) ==
    IF score >= t.ReadNow THEN TierReadNow
    ELSE IF score >= t.Skim THEN TierSkim
    ELSE TierIgnore

\* Score(post, profile), the maps yielding their keys in the orders hs and ls
Score(text, profile, hs, ls) ==
    LET textLower == ToLower(text)
        high == Keywords(NoHits, textLower, profile.Weights.HighSignal, hs)
        low == Keywords(high, textLower, profile.Weights.LowSignal, ls)
        all == Rules(low, textLower, profile.Rules)
        labels == Compact(SortSeq(all.labels, StrLess))
    IN [Text |-> text, Score |-> all.total, Labels |-> labels,
        Tier |-> assignTier(all.total, profile.Thresholds),
        Explanation |-> all.explanation]

\* json.Marshal of a []ScoreContribution: null for the nil slice, else an
\* array of {"Reason": ..., "Points": ...} objects
Marshal(explanation) ==
    IF explanation = <<>> THEN [json |-> "null", items |-> <<>>]
    ELSE [json |-> "array",
          items |-> [i \in 1..Len(explanation) |->
                        [Reason |-> explanation[i].Reason,
                         Points |-> explanation[i].Points]]]

\* the text the scoring commands hand to Score
storePostToSourcePost(p) == IF p.text = <<>> THEN p.snippet ELSE p.text

\* texts of stored posts: full texts, and one post stored as a snippet only
StoredTexts ==
    [text : {<<97>>, <<98>>, <<65>>, <<65, 98>>, <<99, 99, 99>>}, snippet : {<<>>}]
        \cup {[text |-> <<>>, snippet |-> <<97, 98>>]}

KeySources == <<"rss", "telegram", "reddit">>

\* the row pull stored for the i-th post
StoredPost(i, t) ==
    PostRow([source |-> KeySources[i], channel |-> "c1", external_id |-> "1",
             text |-> t.text, snippet |-> t.snippet,
             posted_at |-> [day |-> 1, frac |-> 0], fetched_at |-> FetchTime], i)

\* the store.Score a command builds from a ScoredPost, and db.SaveScore
SaveScored(db, p, sp) ==
    SaveScoreCall(db, [post_id |-> p.id, score |-> sp.Score, labels |-> sp.Labels,
                       tier |-> sp.Tier, scored_at |-> FetchTime,
                       explanation |-> Marshal(sp.Explanation)])

\* one iteration of the loop "Score unscored posts" of the digest command,
\* with the profile config.LoadTaste returned; the other commands that
\* score posts run the same loop body
ScoreUnscored ==
    \E p \in posts, profile \in Profiles :
        /\ validateTaste(profile)
        /\ ~\E s \in scores : s.post_id = p.id
        /\ \E hs \in Orders(profile.Weights.HighSignal),
              ls \in Orders(profile.Weights.LowSignal) :
              LET sp == Score(storePostToSourcePost(p), profile, hs, ls)
              IN /\ scored' = [profile |-> profile, result |-> sp]
                 /\ scores' = SaveScored(DB, p, sp).scores
        /\ last' = Other
        /\ UNCHANGED <<posts, post_also_in, nextId>>
        /\ UNCHANGED <<rssVars, pullVars, otherVars>>

InitScore ==
    /\ \E n \in 1..Min(MaxPosts, Len(KeySources)) :
          \E t \in [1..n -> StoredTexts] :
              /\ posts = {StoredPost(i, t[i]) : i \in 1..n}
              /\ nextId = n + 1
    /\ scores = {}
    /\ post_also_in = {}
    /\ last = Other
    /\ NoFetch
    /\ NoPull
    /\ NoScore
    /\ NoTrending
    /\ NoRun
    /\ NoWatch
    /\ NoLate

NextScore == ScoreUnscored

SpecScore == InitScore /\ [][NextScore]_vars

(***************************************************************************)
(* Claims about taste.Score                                                *)
(***************************************************************************)
RECURSIVE SumPoints(_)
SumPoints(entries) ==
    IF entries = <<>> THEN 0 ELSE Head(entries).Points + SumPoints(Tail(entries))

\* C18: for every scored post the points of the explanation entries sum to
\* the score, in the ScoredPost that Score returned and in every row of
\* the scores table.
C18_ExplanationSumsToScore ==
    /\ scored # <<>> => SumPoints(scored.result.Explanation) = scored.result.Score
    /\ \A s \in scores : SumPoints(s.explanation.String.items) = s.score

\* a stored row whose explanation has a positive and a negative entry
C18_Witness ==
    \E s \in scores :
        /\ s.explanation.Valid
        /\ Len(s.explanation.String.items) >= 3
        /\ \E i, j \in 1..Len(s.explanation.String.items) :
              /\ s.explanation.String.items[i].Points > 0
              /\ s.explanation.String.items[j].Points < 0

\* C19: for a profile with read_now > skim > ignore, the tier is read_now
\* exactly when score >= read_now, skim exactly when skim <= score <
\* read_now, and ignore in every other case.
C19_TierFollowsThresholds ==
    (scored # <<>> /\ validateTaste(scored.profile)) =>
        LET t == scored.profile.Thresholds
            r == scored.result
        IN /\ r.Tier \in {TierReadNow, TierSkim, TierIgnore}
           /\ r.Tier = TierReadNow <=> r.Score >= t.ReadNow
           /\ r.Tier = TierSkim <=> (t.Skim <= r.Score /\ r.Score < t.ReadNow)
           /\ r.Tier = TierIgnore <=> r.Score < t.Skim

\* a score that equals the skim threshold of a valid profile
C19_Witness ==
    /\ scored # <<>>
    /\ validateTaste(scored.profile)
    /\ scored.profile.Thresholds.Skim > 0
    /\ scored.result.Score = scored.profile.Thresholds.Skim
    /\ scored.result.Tier = TierSkim

EmptyProfile(tp) ==
    /\ DOMAIN tp.Weights.HighSignal = {}
    /\ DOMAIN tp.Weights.LowSignal = {}
    /\ tp.Rules = <<>>

\* C20: for an empty profile Score yields score 0, empty labels and tier
\* ignore for every text.
C20_EmptyProfileIgnores ==
    (scored # <<>> /\ EmptyProfile(scored.profile)) =>
        /\ scored.result.Score = 0
        /\ scored.result.Labels = <<>>
        /\ scored.result.Tier = TierIgnore

\* C20, amended: for an empty profile Score yields score 0 and empty
\* labels for every text, and tier ignore exactly when the skim threshold
\* is positive; with a skim threshold of zero or less the tier is skim or
\* read_now.
C20_EmptyProfileIgnoresAboveZero ==
    (scored # <<>> /\ EmptyProfile(scored.profile)) =>
        /\ scored.result.Score = 0
        /\ scored.result.Labels = <<>>
        /\ scored.result.Tier = TierIgnore <=> scored.profile.Thresholds.Skim > 0

\* an empty profile with a positive skim threshold scored a text
C20_Witness ==
    /\ scored # <<>>
    /\ EmptyProfile(scored.profile)
    /\ scored.profile.Thresholds.Skim > 0
    /\ scored.result.Tier = TierIgnore

(***************************************************************************)
(* taste.Score as a function: any sequence of calls in one process         *)
(***************************************************************************)
ScoredTexts == {storePostToSourcePost(t) : t \in StoredTexts} \cup {<<>>}

\* one call Score(post, profile); each "range" over a map starts anew
Invoke ==
    \E text \in ScoredTexts, profile \in Profiles :
        \E hs \in Orders(profile.Weights.HighSignal),
           ls \in Orders(profile.Weights.LowSignal) :
            /\ scored' = [profile |-> profile, result |-> Score(text, profile, hs, ls)]
            /\ UNCHANGED <<storeVars, rssVars, pullVars, otherVars>>

NextScorer == Invoke

SpecScorer == Init /\ [][NextScorer]_vars

\* C21: two calls of Score with the same post and the same profile in one
\* run return identical results, the order of the explanation entries
\* included.
C21_ScoreDeterministic ==
    [][(/\ scored # <<>>
        /\ scored'.profile = scored.profile
        /\ scored'.result.Text = scored.result.Text)
          => scored'.result = scored.result]_vars

(***************************************************************************)
(* taste.FindTrending                                                      *)
(* Channels and URLs are sequences of character codes as well:             *)
(* 49 '1', 50 '2', 51 '3', 117 'u'.                                        *)
(***************************************************************************)
MaxTrendPosts == 2  \* posts handed to one call of FindTrending

\* ScoredPost, with the fields FindTrending reads
TrendPosts ==
    [Channel : {<<49>>, <<50>>, <<51>>}, Text : {<<65>>, <<98>>},
     URL : {<<>>, <<117>>, <<97>>}, Tier : {TierReadNow, TierIgnore}]

TrendPostLists == UNION {[1..n -> TrendPosts] : n \in 0..MaxTrendPosts}

\* profiles that differ in what collectKeywords reads
TrendProfiles ==
    {tp \in Profiles : /\ DOMAIN tp.Weights.LowSignal = {}
                       /\ tp.Thresholds.ReadNow = 7}

MinSources == {1, 2, 3}

\* a sequence without the elements whose lowercase form an earlier element has
RECURSIVE Unseen(_, _)
Unseen(kws, seenLower) ==
    IF kws = <<>> THEN <<>>
    ELSE IF ToLower(Head(kws)) \in seenLower THEN Unseen(Tail(kws), seenLower)
    ELSE <<Head(kws)>> \o Unseen(Tail(kws), seenLower \cup {ToLower(Head(kws))})

RECURSIVE RuleKeywords(_)
RuleKeywords(rules) ==
    IF rules = <<>> THEN <<>>
    ELSE Head(rules).If.ContainsAny \o RuleKeywords(Tail(rules))

\* collectKeywords(profile), the map yielding its keys in the order hs
collectKeywords(profile, hs) == Unseen(hs \o RuleKeywords(profile.Rules), {})

\* sort.Strings on the keys of a channel map
RECURSIVE SortStrings(_)
SortStrings(set) ==
    IF set = {} THEN <<>>
    ELSE LET first == CHOOSE x \in set : \A y \in set \ {x} : StrLess(x, y)
         IN <<first>> \o SortStrings(set \ {first})

\* the comparison of the final sort.Slice
TrendLess(s, t) ==
    IF Len(s.Channels) # Len(t.Channels) THEN Len(s.Channels) > Len(t.Channels)
    ELSE StrLess(s.Keyword, t.Keyword)

\* the final sort.Slice; no two trends have the same keyword
RECURSIVE SortTrends(_)
SortTrends(set) ==
    IF set = {} THEN <<>>
    ELSE LET first == CHOOSE x \in set : \A y \in set \ {x} : TrendLess(x, y)
         IN <<first>> \o SortTrends(set \ {first})

\* the posts the loop does not skip
Considered(sps) ==
    {k \in 1..Len(sps) : sps[k].Tier \in {TierReadNow, TierSkim}}

\* kwChannels[kw] and urlChannels[url] after the loop over the posts
KwChannels(sps, kw) ==
    {sps[k].Channel : k \in {j \in Considered(sps) :
                                 ContainsText(ToLower(sps[j].Text), ToLower(kw))}}

UrlChannels(sps, url) ==
    {sps[k].Channel : k \in {j \in Considered(sps) : sps[j].URL = url}}

ClampedMin(minSources) == IF minSources < 2 THEN 2 ELSE minSources

\* the trends FindTrending builds when the profile has keywords
TrendsFound(sps, keywords, minSources) ==
    LET kws == {keywords[k] : k \in 1..Len(keywords)}
        urls == {sps[k].URL : k \in Considered(sps)} \ {<<>>}
        seenKw == {kw \in kws : Cardinality(KwChannels(sps, kw)) >= minSources}
        kwTrends == {[Keyword |-> kw,
                      Channels |-> SortStrings(KwChannels(sps, kw))] :
                        kw \in seenKw}
        urlTrends == {[Keyword |-> url,
                       Channels |-> SortStrings(UrlChannels(sps, url))] :
                        url \in {u \in urls :
                                   /\ ~(Cardinality(UrlChannels(sps, u)) < minSources)
                                   /\ u \notin seenKw}}
    IN SortTrends(kwTrends \cup urlTrends)

FindTrending(sps, profile, minSources, hs) ==
    LET keywords == collectKeywords(profile, hs)
    IN IF Len(keywords) = 0 THEN <<>>
       ELSE TrendsFound(sps, keywords, ClampedMin(minSources))

\* FindTrending is about to be called with these arguments
Calling(sps, profile, minSources) ==
    [posts |-> sps, profile |-> profile, minSources |-> minSources,
     returned |-> FALSE, trends |-> <<>>]

FindTrendingCall ==
    /\ trending # <<>>
    /\ ~trending.returned
    /\ \E hs \in Orders(trending.profile.Weights.HighSignal) :
          trending' = [trending EXCEPT
              !.returned = TRUE,
              !.trends = FindTrending(trending.posts, trending.profile,
                                      trending.minSources, hs)]
    /\ UNCHANGED <<storeVars, rssVars, pullVars, tasteVars, run, watch, lateVars>>

InitTrend ==
    /\ InitStore
    /\ NoFetch
    /\ NoPull
    /\ NoScore
    /\ NoRun
    /\ NoWatch
    /\ NoLate
    /\ \E sps \in TrendPostLists, profile \in TrendProfiles, minSources \in MinSources :
          trending = Calling(sps, profile, minSources)

NextTrend == FindTrendingCall

SpecTrend == InitTrend /\ [][NextTrend]_vars

\* C22: FindTrending emits a Trend for every non-empty URL that read_now or
\* skim posts of at least min_sources distinct channels reference (a
\* keyword trend with the same string stands for it).
C22_SharedUrlTrends ==
    (trending # <<>> /\ trending.returned) =>
        \A k \in Considered(trending.posts) :
            LET url == trending.posts[k].URL
            IN (/\ url # <<>>
                /\ Cardinality(UrlChannels(trending.posts, url))
                      >= ClampedMin(trending.minSources))
                => \E j \in 1..Len(trending.trends) :
                      trending.trends[j].Keyword = url

(***************************************************************************)
(* digestAction and rescoreAction, up to the items the digest retains      *)
(***************************************************************************)
PostedDays == {1, 2}    \* days on which the stored posts were posted

\* sinceTime := time.Now().Add(-sinceDur)
SinceTimes == {[day |-> 1, frac |-> 0], [day |-> 2, frac |-> 0]}

\* cfg.Digest.TopN and cfg.Digest.IncludeSkims after applyDefaults
TopNs == {1, 2}
IncludeSkims == {1, 2}

\* store.PostFilter{Source: digestSource}
SourceFilters == {"", "rss"}

RunTexts ==
    {[text |-> <<97>>, snippet |-> <<>>], [text |-> <<65, 98>>, snippet |-> <<>>],
     [text |-> <<>>, snippet |-> <<97, 98>>]}

\* the profile the command loads
RunProfiles ==
    {tp \in Profiles : /\ validateTaste(tp)
                       /\ DOMAIN tp.Weights.HighSignal # {}
                       /\ DOMAIN tp.Weights.LowSignal = {}
                       /\ tp.Rules = <<>>}

\* the profile an earlier run scored posts with
OldProfile ==
    [Weights |-> [HighSignal |-> (<<97>> :> 3), LowSignal |-> (<<98>> :> -4)],
     Rules |-> <<RuleCerts>>,
     Thresholds |-> [ReadNow |-> 7, Skim |-> 3, Ignore |-> 0]]

\* the row pull stored for the i-th post, posted on that day
StoredPostOn(i, t, day) ==
    PostRow([source |-> KeySources[i], channel |-> "c1", external_id |-> "1",
             text |-> t.text, snippet |-> t.snippet,
             posted_at |-> [day |-> day, frac |-> 0], fetched_at |-> FetchTime], i)

\* the scores row a command stores for a ScoredPost
ScoreRow(p, sp) ==
    CHOOSE s \in SaveScored([posts |-> {p}, scores |-> {}, post_also_in |-> {},
                             err |-> FALSE], p, sp).scores : TRUE

\* the sequences that hold every element of a set once
Perms(set) ==
    {f \in [1..Cardinality(set) -> set] :
        \A i, j \in 1..Cardinality(set) : i # j => f[i] # f[j]}

\* Store.GetPosts(ctx, since, "", filter): LEFT JOIN scores,
\* WHERE p.posted_at >= ? [AND p.source = ?] ORDER BY p.posted_at DESC
GetPosts(db, since, filter) ==
    LET rows == {[Post |-> p,
                  Score |-> IF \E s \in db.scores : s.post_id = p.id
                            THEN CHOOSE s \in db.scores : s.post_id = p.id
                            ELSE <<>>] :
                   p \in {q \in db.posts :
                            /\ ~StrLess(q.posted_at, formatTime(since))
                            /\ (filter # "" => q.source = filter)}}
    IN {f \in Perms(rows) :
          \A i, j \in 1..Len(f) :
              i < j => ~StrLess(f[i].Post.posted_at, f[j].Post.posted_at)}

\* Store.DeleteAllScores: every row of scores is deleted
DeleteAllScores(db) == [db EXCEPT !.scores = {}]

\* a command that has loaded its configuration and opened the store
Running(kind, profile, since, filter, topN, includeSkims, before) ==
    [kind |-> kind, profile |-> profile, since |-> since, filter |-> filter,
     topN |-> topN, includeSkims |-> includeSkims,
     pc |-> IF kind = "rescore" THEN "delete" ELSE "get",
     posts |-> <<>>, i |-> 0, calls |-> 0, all |-> <<>>, items |-> <<>>,
     before |-> before]

\* rescoreAction: db.DeleteAllScores(ctx)
RescoreDelete ==
    /\ run # <<>>
    /\ run.pc = "delete"
    /\ scores' = DeleteAllScores(DB).scores
    /\ last' = Other
    /\ run' = [run EXCEPT !.pc = "get"]
    /\ UNCHANGED <<posts, post_also_in, nextId>>
    /\ UNCHANGED <<rssVars, pullVars, tasteVars, trending, watch, lateVars>>

\* posts, err := db.GetPosts(ctx, sinceTime, "", filter)
RunGetPosts ==
    /\ run # <<>>
    /\ run.pc = "get"
    /\ \E read \in GetPosts(DB, run.since, run.filter) :
          run' = [run EXCEPT !.pc = "score", !.posts = read, !.i = 1]
    /\ last' = Other
    /\ UNCHANGED <<posts, scores, post_also_in, nextId>>
    /\ UNCHANGED <<rssVars, pullVars, tasteVars, trending, watch, lateVars>>

\* if posts[i].Score != nil { continue }, which rescore's loop does not have
SkipsNothing(r, pws) == FALSE

Skips(r, pws) == r.kind = "digest" /\ pws.Score # <<>>

\* one iteration of the loop that scores the posts read
RunScore ==
    /\ run # <<>>
    /\ run.pc = "score"
    /\ run.i <= Len(run.posts)
    /\ LET pws == run.posts[run.i]
       IN IF Skips(run, pws)
          THEN /\ run' = [run EXCEPT !.i = @ + 1]
               /\ UNCHANGED <<scores, last, scored>>
          ELSE \E hs \in Orders(run.profile.Weights.HighSignal),
                  ls \in Orders(run.profile.Weights.LowSignal) :
                  LET sp == Score(storePostToSourcePost(pws.Post), run.profile, hs, ls)
                      db == SaveScored(DB, pws.Post, sp)
                  IN /\ scored' = [profile |-> run.profile, result |-> sp]
                     /\ scores' = db.scores
                     /\ last' = Other
                     /\ run' = [run EXCEPT
                            !.i = @ + 1, !.calls = @ + 1,
                            !.posts[run.i].Score = ScoreRow(pws.Post, sp)]
    /\ UNCHANGED <<posts, post_also_in, nextId>>
    /\ UNCHANGED <<rssVars, pullVars, trending, watch, lateVars>>

\* digest.DigestItem, with the fields the limits read
Item(pws) == [ID |-> pws.Post.id, Score |-> pws.Score.score, Tier |-> pws.Score.tier]

\* sort.Slice(items, func(i, j) bool { return items[i].Score > items[j].Score })
SortedAscending(items) ==
    {f \in Perms({items[k] : k \in 1..Len(items)}) :
        \A i, j \in 1..Len(f) : i < j => ~(f[j].Score < f[i].Score)}

SortedByScore(items) ==
    {f \in Perms({items[k] : k \in 1..Len(items)}) :
        \A i, j \in 1..Len(f) : i < j => ~(f[j].Score > f[i].Score)}

\* the loop "for _, item := range items" that builds limited
RECURSIVE Limited(_, _, _, _, _)
Limited(items, readNowCount, skimCount, topN, includeSkims) ==
    IF items = <<>> THEN <<>>
    ELSE LET item == Head(items)
         IN CASE item.Tier = TierReadNow ->
                   IF readNowCount < topN
                   THEN <<item>> \o Limited(Tail(items), readNowCount + 1, skimCount,
                                            topN, includeSkims)
                   ELSE Limited(Tail(items), readNowCount, skimCount, topN, includeSkims)
              [] item.Tier = TierSkim ->
                   IF skimCount < includeSkims
                   THEN <<item>> \o Limited(Tail(items), readNowCount, skimCount + 1,
                                            topN, includeSkims)
                   ELSE Limited(Tail(items), readNowCount, skimCount, topN, includeSkims)
              [] OTHER ->
                   <<item>> \o Limited(Tail(items), readNowCount, skimCount,
                                       topN, includeSkims)

\* rescoreAction returns after its loop
RescoreReturn ==
    /\ run # <<>>
    /\ run.kind = "rescore"
    /\ run.pc = "score"
    /\ run.i > Len(run.posts)
    /\ run' = [run EXCEPT !.pc = "done"]
    /\ UNCHANGED <<storeVars, rssVars, pullVars, tasteVars, trending, watch, lateVars>>

\* digestAction after its scoring loop: the items, sorted and limited
DigestLimit ==
    /\ run # <<>>
    /\ run.kind = "digest"
    /\ run.pc = "score"
    /\ run.i > Len(run.posts)
    /\ LET items == [k \in 1..Len(run.posts) |-> Item(run.posts[k])]
       IN \E sorted \in SortedByScore(items) :
             run' = [run EXCEPT
                 !.pc = "done", !.all = items,
                 !.items = Limited(sorted, 0, 0, run.topN, run.includeSkims)]
    /\ UNCHANGED <<storeVars, rssVars, pullVars, tasteVars, trending, watch, lateVars>>

InitRun ==
    /\ \E n \in 1..Min(MaxPosts, Len(KeySources)) :
          \E t \in [1..n -> RunTexts], day \in [1..n -> PostedDays],
             old \in SUBSET (1..n) :
              /\ posts = {StoredPostOn(i, t[i], day[i]) : i \in 1..n}
              /\ scores = {ScoreRow(StoredPostOn(i, t[i], day[i]),
                                    Score(storePostToSourcePost(t[i]), OldProfile,
                                          <<<<97>>>>, <<<<98>>>>)) : i \in old}
              /\ nextId = n + 1
    /\ post_also_in = {}
    /\ last = Other
    /\ NoFetch
    /\ NoPull
    /\ NoScore
    /\ NoTrending
    /\ NoWatch
    /\ NoLate
    /\ \E kind \in {"digest", "rescore"}, profile \in RunProfiles, since \in SinceTimes,
          filter \in SourceFilters, topN \in TopNs, includeSkims \in IncludeSkims :
          /\ kind = "rescore" => filter = "" /\ topN = 1 /\ includeSkims = 1
          /\ run = Running(kind, profile, since, filter, topN, includeSkims, scores)

NextRun ==
    \/ RescoreDelete
    \/ RunGetPosts
    \/ RunScore
    \/ RescoreReturn
    \/ DigestLimit

SpecRun == InitRun /\ [][NextRun]_vars

(***************************************************************************)
(* Claims about digestAction and rescoreAction                             *)
(***************************************************************************)
\* the rows Score can produce for a stored post under a profile
ScoreRows(p, profile) ==
    {ScoreRow(p, Score(storePostToSourcePost(p), profile, hs, ls)) :
        hs \in Orders(profile.Weights.HighSignal),
        ls \in Orders(profile.Weights.LowSignal)}

Read(r) == {r.posts[k].Post.id : k \in 1..Len(r.posts)}

Scored(rows) == {s.post_id : s \in rows}

\* C23: a digest run computes and stores a Score for exactly the posts it
\* read that had none, and leaves every Score row that existed unchanged.
C23_DigestScoresOnlyUnscored ==
    (run # <<>> /\ run.kind = "digest" /\ run.pc = "done") =>
        /\ run.before \subseteq scores
        /\ Scored(scores) = Scored(run.before) \cup Read(run)
        /\ \A p \in posts :
              p.id \in Read(run) \ Scored(run.before) =>
                  \E s \in ScoreRows(p, run.profile) : s \in scores
        /\ run.calls = Cardinality(Read(run) \ Scored(run.before))
        /\ \A k \in 1..Len(run.posts) :
              run.posts[k].Post.id \in Scored(run.before) =>
                  run.posts[k].Score \in run.before

\* a digest that read a post with a Score and a post without one, and left
\* a post outside its window unscored or untouched
C23_Witness ==
    /\ run # <<>>
    /\ run.kind = "digest"
    /\ run.pc = "done"
    /\ Read(run) \cap Scored(run.before) # {}
    /\ Read(run) \ Scored(run.before) # {}

Kept(r) == {r.items[k].ID : k \in 1..Len(r.items)}

\* C24: the digest retains at most top_n read_now items and at most
\* include_skims skim items, and no dropped item of a tier has a higher
\* score than a retained item of the same tier.
C24_LimitsKeepHighest ==
    (run # <<>> /\ run.kind = "digest" /\ run.pc = "done") =>
        /\ Cardinality({k \in 1..Len(run.items) : run.items[k].Tier = TierReadNow})
              <= run.topN
        /\ Cardinality({k \in 1..Len(run.items) : run.items[k].Tier = TierSkim})
              <= run.includeSkims
        /\ Kept(run) \subseteq {run.all[k].ID : k \in 1..Len(run.all)}
        /\ \A d, k \in 1..Len(run.all) :
              (/\ run.all[d].ID \notin Kept(run)
               /\ run.all[k].ID \in Kept(run)
               /\ run.all[d].Tier = run.all[k].Tier)
                  => ~(run.all[d].Score > run.all[k].Score)

\* a read_now item was dropped in favour of one with a higher score
C24_Witness ==
    /\ run # <<>>
    /\ run.kind = "digest"
    /\ run.pc = "done"
    /\ \E d, k \in 1..Len(run.all) :
          /\ run.all[d].ID \notin Kept(run)
          /\ run.all[k].ID \in Kept(run)
          /\ run.all[d].Tier = TierReadNow
          /\ run.all[k].Tier = TierReadNow
          /\ run.all[d].Score < run.all[k].Score

\* C29: after rescore completes every post in the store has a Score, and
\* each Score is the Scorer's result for that post under the current
\* profile.
C29_RescoreScoresEveryPost ==
    (run # <<>> /\ run.kind = "rescore" /\ run.pc = "done") =>
        \A p \in posts :
            \E s \in scores : s.post_id = p.id /\ s \in ScoreRows(p, run.profile)

(***************************************************************************)
(* The size of the worker pool of RSSSource.Fetch                          *)
(*                                                                         *)
(* Fetch groups the feeds by origin and starts the workers before it sends *)
(* the first group.  The configurations here list up to twelve feeds, each *)
(* of its own origin, so that there are more groups than rssMaxWorkers.    *)
(***************************************************************************)
\* relative references: feedDomain gives each of them a group of its own
PoolURLs == {"f01.xml", "f02.xml", "f03.xml", "f04.xml", "f05.xml", "f06.xml",
             "f07.xml", "f08.xml", "f09.xml", "f10.xml", "f11.xml", "f12.xml"}

RECURSIVE ListOf(_)
ListOf(S) ==
    IF S = {} THEN <<>>
    ELSE LET u == CHOOSE x \in S : TRUE IN <<u>> \o ListOf(S \ {u})

PoolFeedLists == {ListOf(S) : S \in SUBSET PoolURLs \ {{}}}

\* workers := rssMaxWorkers, lowered to len(domainFeeds); for range workers
\* starts one goroutine each
StartWorkers ==
    /\ main = "start"
    /\ worker' = [w \in Workers(feeds) |-> Receiving]
    /\ main' = "push"
    /\ UNCHANGED <<feeds, unsent, domainJobs, results, closed, fetched, lastBy, seen>>
    /\ UNCHANGED <<storeVars, pullVars, tasteVars, otherVars>>

InitPool ==
    /\ InitStore
    /\ NoPull
    /\ NoScore
    /\ NoTrending
    /\ NoRun
    /\ NoWatch
    /\ NoLate
    /\ feeds \in PoolFeedLists
    /\ unsent = Domains(feeds)
    /\ domainJobs = <<>>
    /\ worker = <<>>
    /\ results = <<>>
    /\ closed = {}
    /\ fetched = <<>>
    /\ lastBy = [h \in Hosts |-> 0]
    /\ seen = [tried |-> [u \in PoolURLs |-> 0],
               succeeded |-> [u \in PoolURLs |-> 0],
               collected |-> [u \in PoolURLs |-> 0]]
    /\ main = "start"

NextPool == StartWorkers

SpecPool == InitPool /\ [][NextPool]_vars

\* C30: Fetch never runs more than 10 workers, so at most 10 origin groups
\* are being processed at any time.
C30_AtMostTenWorkers ==
    /\ Cardinality(DOMAIN worker) <= 10
    /\ Cardinality({w \in DOMAIN worker : worker[w].job # <<>>}) <= 10

\* the feeds have more than 10 origins and 10 workers were started
C30_Witness ==
    /\ main = "push"
    /\ Cardinality(Domains(feeds)) > 10
    /\ Cardinality(DOMAIN worker) = 10

(***************************************************************************)
(* runAction in watch mode: runWatch, the interval ticker and the contexts *)
(*                                                                         *)
(* An error value is a number: 0 is nil and n > 0 is the error the n-th    *)
(* call of runOnce returned.  A cycle is one call of runPipeline: a fetch  *)
(* by a source, then the store and digest work.                            *)
(***************************************************************************)
MaxTicks == 3       \* ticks the ticker fires in one run

NoError == 0
CycleError(n) == n
Canceled == -1      \* ctx.Err() of a cancelled context

\* the contexts of one run: cmd.Context(), the context signal.NotifyContext
\* derives from it, and the context fetchFeed derives for one request
Contexts == {"cmd", "signal", "fetch"}

Parent(c) ==
    CASE c = "signal" -> "cmd"
      [] c = "cmd" -> "background"
      [] c = "fetch" -> "background"

\* <-c.Done() is ready: c or an ancestor of c was cancelled
RECURSIVE Done(_, _)
Done(w, c) ==
    IF c = "background" THEN FALSE
    ELSE c \in w.cancelled \/ Done(w, Parent(c))

\* runOnce is called: runPipeline starts pullAction, whose source creates
\* the context of its request
StartCycle(w) ==
    [w EXCEPT !.pc = "cycle", !.calls = @ + 1, !.phase = "fetch",
              !.cancelled = @ \ {"fetch"}]

\* the function returns err; the deferred ticker.Stop() runs if the ticker
\* was created
Return(w, err) ==
    [w EXCEPT !.pc = "returned", !.ret = err, !.phase = "none",
              !.ticker = IF @ = "running" THEN "stopped" ELSE @]

EnterWaitsForTick(w) == [w EXCEPT !.pc = "select", !.ticker = "running"]

\* runWatch calls runOnce before it creates the ticker
Enter(w) == StartCycle(w)

AfterCycleLogAndContinue(w, err) ==
    [w EXCEPT !.pc = "select", !.phase = "none",
              !.results = Append(@, err),
              !.ticker = IF @ = "none" THEN "running" ELSE @]

\* "if err := runOnce(); err != nil { return err }", at both calls; after
\* the first call the ticker is created
AfterCycle(w, err) ==
    IF err # NoError
    THEN Return([w EXCEPT !.results = Append(@, err)], err)
    ELSE [w EXCEPT !.pc = "select", !.phase = "none",
                   !.results = Append(@, err),
                   !.ticker = IF @ = "none" THEN "running" ELSE @]

OnDoneReturnsErr(w) == Return(w, Canceled)

\* case <-ctx.Done(): return nil
OnDone(w) == Return(w, NoError)

\* a context is cancelled; doneAt keeps the number of cycles that had ended
\* when the context of runWatch became done
Cancel(w, c) ==
    [w EXCEPT !.cancelled = @ \cup {c},
              !.doneAt = IF Done(w, "signal") THEN @ ELSE Len(w.results)]

\* runAction has parsed a positive interval and derived the signal context
Watching ==
    [pc |-> "enter", calls |-> 0, results |-> <<>>, ret |-> NoError,
     ticker |-> "none", C |-> 0, fired |-> 0, received |-> 0,
     phase |-> "none", fetch |-> "none", cancelled |-> {}, doneAt |-> -1]

EnterWatch ==
    /\ watch # <<>>
    /\ watch.pc = "enter"
    /\ watch' = Enter(watch)
    /\ UNCHANGED <<storeVars, rssVars, pullVars, tasteVars, trending, run, lateVars>>

\* SIGINT or SIGTERM arrives while the handler is registered
Signal ==
    /\ watch # <<>>
    /\ watch.pc # "returned"
    /\ "signal" \notin watch.cancelled
    /\ watch' = Cancel(watch, "signal")
    /\ UNCHANGED <<storeVars, rssVars, pullVars, tasteVars, trending, run, lateVars>>

\* the caller cancels the context it gave the command
CancelCmd ==
    /\ watch # <<>>
    /\ watch.pc # "returned"
    /\ "cmd" \notin watch.cancelled
    /\ watch' = Cancel(watch, "cmd")
    /\ UNCHANGED <<storeVars, rssVars, pullVars, tasteVars, trending, run, lateVars>>

\* the deadline of the request's context passes
Timeout ==
    /\ watch # <<>>
    /\ watch.phase = "fetch"
    /\ "fetch" \notin watch.cancelled
    /\ watch' = [watch EXCEPT !.cancelled = @ \cup {"fetch"}]
    /\ UNCHANGED <<storeVars, rssVars, pullVars, tasteVars, trending, run, lateVars>>

\* the request ends: with the context's error when its context is done,
\* otherwise with a response or a transport error
EndFetch ==
    /\ watch # <<>>
    /\ watch.phase = "fetch"
    /\ \E outcome \in IF Done(watch, "fetch") THEN {"aborted"} ELSE {"ok", "failed"} :
           watch' = [watch EXCEPT !.phase = "store", !.fetch = outcome]
    /\ UNCHANGED <<storeVars, rssVars, pullVars, tasteVars, trending, run, lateVars>>

\* runOnce returns
EndCycle ==
    /\ watch # <<>>
    /\ watch.pc = "cycle"
    /\ watch.phase = "store"
    /\ \E err \in {NoError, CycleError(watch.calls)} :
           watch' = AfterCycle(watch, err)
    /\ UNCHANGED <<storeVars, rssVars, pullVars, tasteVars, trending, run, lateVars>>

\* the ticker fires: its channel holds one tick, a further one is dropped
Tick ==
    /\ watch # <<>>
    /\ watch.ticker = "running"
    /\ watch.fired < MaxTicks
    /\ watch' = [watch EXCEPT !.fired = @ + 1, !.C = 1]
    /\ UNCHANGED <<storeVars, rssVars, pullVars, tasteVars, trending, run, lateVars>>

SelectDone ==
    /\ watch # <<>>
    /\ watch.pc = "select"
    /\ Done(watch, "signal")
    /\ watch' = OnDone(watch)
    /\ UNCHANGED <<storeVars, rssVars, pullVars, tasteVars, trending, run, lateVars>>

\* case <-ticker.C: runOnce is called
SelectTick ==
    /\ watch # <<>>
    /\ watch.pc = "select"
    /\ watch.C = 1
    /\ watch' = StartCycle([watch EXCEPT !.C = 0, !.received = @ + 1])
    /\ UNCHANGED <<storeVars, rssVars, pullVars, tasteVars, trending, run, lateVars>>

InitWatch ==
    /\ InitStore
    /\ NoFetch
    /\ NoPull
    /\ NoScore
    /\ NoTrending
    /\ NoRun
    /\ watch = Watching
    /\ NoLate

NextWatch ==
    \/ EnterWatch
    \/ Signal
    \/ CancelCmd
    \/ Timeout
    \/ EndFetch
    \/ EndCycle
    \/ Tick
    \/ SelectDone
    \/ SelectTick

SpecWatch == InitWatch /\ [][NextWatch]_vars

\* a call of runOnce returns (its requests have deadlines); a select with a
\* ready case proceeds, and Go chooses among the ready cases at random, so
\* a case that stays ready is chosen at some point
FairSpecWatch ==
    /\ SpecWatch
    /\ WF_vars(EnterWatch)
    /\ WF_vars(EndFetch)
    /\ WF_vars(EndCycle)
    /\ SF_vars(SelectDone)

(***************************************************************************)
(* Claims about watch mode                                                 *)
(***************************************************************************)
\* C25: in watch mode the first cycle runs immediately, before the first
\* tick of the interval timer, and thereafter one cycle runs on each tick:
\* no tick fires before the first cycle has ended, and the cycles started
\* are the first one and one for each tick the loop received.
C25_ImmediateThenPerTick ==
    /\ watch.fired > 0 => Len(watch.results) >= 1
    /\ watch.received <= watch.fired
    /\ watch.pc # "enter" => watch.calls = 1 + watch.received

\* the third cycle is running, started by the second tick
C25_Witness ==
    /\ watch.pc = "cycle"
    /\ watch.calls = 3
    /\ watch.received = 2

\* the context of runWatch was cancelled before the function returned
CancelledAndReturned == watch.pc = "returned" /\ Done(watch, "signal")

C27_CycleErrorAborts ==
    \A k \in 1..Len(watch.results) :
        watch.results[k] # NoError =>
            /\ watch.pc = "returned"
            /\ watch.ret = watch.results[k]
            /\ watch.calls = k

\* the second cycle failed while the context was live and a tick was waiting
C27_Witness ==
    /\ watch.pc = "returned"
    /\ watch.ret = CycleError(2)
    /\ watch.C = 1
    /\ ~Done(watch, "signal")

\* C28: watch mode's cancellation token propagates into the running cycle:
\* when the token is cancelled during a cycle, an in-flight fetch aborts
\* instead of running to completion.
C28_CancelAbortsFetch ==
    [][(/\ watch.phase = "fetch"
        /\ Done(watch, "signal")
        /\ watch'.phase = "store") => watch'.fetch = "aborted"]_vars

\* C39: once the watch token has been cancelled, no new cycle is started,
\* even if an interval tick is pending at the same moment.
\* Checked where the loop waits in its select with the token cancelled.
C39_NoCycleAfterCancel ==
    [][(Done(watch, "signal") /\ watch.pc = "select")
          => watch'.calls = watch.calls]_vars

(***************************************************************************)
(* HNSource.Fetch: the list of top stories, the pool of item workers, the  *)
(* closer goroutine and the collecting loop                                *)
(***************************************************************************)
MaxStories == 3     \* ids the top-stories request returns

hnMaxStories == 200
hnMaxWorkers == 5

\* the decoded body of topstories.json: up to MaxStories ids, or six, one
\* more than the pool has workers
IdLists == {[k \in 1..n |-> k] : n \in (0..MaxStories) \cup {hnMaxWorkers + 1}}

\* if len(ids) > hnMaxStories { ids = ids[:hnMaxStories] }
CapStories(ids) == SubSeq(ids, 1, Min(Len(ids), hnMaxStories))

HNWorkersPerStory(ids) == 1..Len(ids)

\* workers := hnMaxWorkers, lowered to len(ids)
HNWorkers(ids) == 1..Min(hnMaxWorkers, Len(ids))

\* what a worker sends for an item: a post, an empty result for an item it
\* filters out, or the error of fetchItem; the items of the list of six are
\* all stories that pass the filters
ItemResults(ids) ==
    IF Len(ids) > MaxStories THEN {"post"} ELSE {"post", "none", "err"}

\* fetchTopStories returned ids: both channels are made with room for
\* len(ids) values and the workers are started
Pooling(ids) ==
    [main |-> "push", ids |-> ids, err |-> FALSE, next |-> 1,
     jobs |-> <<>>, jobsClosed |-> FALSE,
     results |-> <<>>, resultsClosed |-> FALSE,
     worker |-> [w \in HNWorkers(ids) |-> [pc |-> "recv", id |-> 0]],
     closer |-> "none",
     sent |-> [k \in 1..Len(ids) |-> 0], posts |-> <<>>, got |-> 0]

\* ids, err := h.fetchTopStories(ctx)
HNTopStories ==
    /\ hn # <<>>
    /\ hn.main = "top"
    /\ \/ hn' = [hn EXCEPT !.main = "returned", !.err = TRUE]
       \/ \E ids \in IdLists : hn' = Pooling(CapStories(ids))
    /\ UNCHANGED <<storeVars, rssVars, pullVars, tasteVars, trending, run, watch, ingest, summ>>

\* "for _, id := range ids { jobs <- id }", then close(jobs) and the start
\* of the closer goroutine
HNPush ==
    /\ hn # <<>>
    /\ hn.main = "push"
    /\ IF hn.next <= Len(hn.ids)
       THEN /\ Len(hn.jobs) < Len(hn.ids)
            /\ hn' = [hn EXCEPT !.jobs = Append(@, hn.ids[hn.next]), !.next = @ + 1]
       ELSE hn' = [hn EXCEPT !.jobsClosed = TRUE, !.closer = "waiting",
                             !.main = "collect"]
    /\ UNCHANGED <<storeVars, rssVars, pullVars, tasteVars, trending, run, watch, ingest, summ>>

\* "for id := range jobs": the worker takes an id, or leaves the loop when
\* the channel is closed and empty, and wg.Done() runs
HNReceive(w) ==
    /\ hn # <<>>
    /\ hn.main \in {"push", "collect"}
    /\ w \in DOMAIN hn.worker
    /\ hn.worker[w].pc = "recv"
    /\ IF hn.jobs # <<>>
       THEN hn' = [hn EXCEPT !.jobs = Tail(@),
                             !.worker[w] = [pc |-> "fetch", id |-> Head(hn.jobs)]]
       ELSE /\ hn.jobsClosed
            /\ hn' = [hn EXCEPT !.worker[w].pc = "exited"]
    /\ UNCHANGED <<storeVars, rssVars, pullVars, tasteVars, trending, run, watch, ingest, summ>>

\* each branch of the loop body sends one result and continues
OneResult(r) == <<r>>

\* h.fetchItem returns and the worker sends what it made of the item
HNFetchItem(w) ==
    /\ hn # <<>>
    /\ hn.main \in {"push", "collect"}
    /\ w \in DOMAIN hn.worker
    /\ hn.worker[w].pc = "fetch"
    /\ \E outcome \in ItemResults(hn.ids) :
         LET id == hn.worker[w].id
             out == OneResult([id |-> id, outcome |-> outcome])
         IN /\ Len(hn.results) + Len(out) <= Len(hn.ids)
            /\ hn' = [hn EXCEPT !.results = @ \o out,
                                !.sent[id] = @ + Len(out),
                                !.worker[w] = [pc |-> "recv", id |-> 0]]
    /\ UNCHANGED <<storeVars, rssVars, pullVars, tasteVars, trending, run, watch, ingest, summ>>

CloserDoesNotWait(h) == TRUE

\* wg.Wait() returns when every worker has called wg.Done()
WaitGroupDone(h) == \A w \in DOMAIN h.worker : h.worker[w].pc = "exited"

\* go func() { wg.Wait(); close(results) }()
HNCloser ==
    /\ hn # <<>>
    /\ hn.main = "collect"
    /\ hn.closer = "waiting"
    /\ WaitGroupDone(hn)
    /\ hn' = [hn EXCEPT !.closer = "exited", !.resultsClosed = TRUE]
    /\ UNCHANGED <<storeVars, rssVars, pullVars, tasteVars, trending, run, watch, ingest, summ>>

\* "for r := range results": errors are printed, posts are appended; the
\* loop ends when the channel is closed and empty and Fetch returns
HNCollect ==
    /\ hn # <<>>
    /\ hn.main = "collect"
    /\ IF hn.results # <<>>
       THEN LET r == Head(hn.results)
            IN hn' = [hn EXCEPT !.results = Tail(@), !.got = @ + 1,
                                !.posts = IF r.outcome = "post"
                                          THEN Append(@, r.id) ELSE @]
       ELSE /\ hn.resultsClosed
            /\ hn' = [hn EXCEPT !.main = "returned"]
    /\ UNCHANGED <<storeVars, rssVars, pullVars, tasteVars, trending, run, watch, ingest, summ>>

InitHN ==
    /\ InitStore
    /\ NoFetch
    /\ NoPull
    /\ NoScore
    /\ NoTrending
    /\ NoRun
    /\ NoWatch
    /\ ingest = <<>>
    /\ summ = <<>>
    /\ hn = [Pooling(<<>>) EXCEPT !.main = "top"]

NextHN ==
    \/ HNTopStories
    \/ HNPush
    \/ \E w \in DOMAIN hn.worker : HNReceive(w)
    \/ \E w \in DOMAIN hn.worker : HNFetchItem(w)
    \/ HNCloser
    \/ HNCollect

SpecHN == InitHN /\ [][NextHN]_vars

(***************************************************************************)
(* Claims about HNSource.Fetch                                             *)
(***************************************************************************)
EveryIdOnce(h) == \A k \in 1..Len(h.ids) : h.sent[k] = 1

\* C31: in a ranked-list Fetch (pool of at most 5 workers) the closer closes
\* the result channel only after every worker has exited, each fetched item
\* ID yields exactly one result, and Fetch returns after collecting all of
\* them, provided each item request returns: until Fetch has returned some
\* goroutine can take a step, and every step consumes an id, a job, a
\* result or a goroutine, so no worker, closer or collector blocks forever.
C31_PoolDrains ==
    /\ Cardinality(DOMAIN hn.worker) <= 5
    /\ hn.resultsClosed => WaitGroupDone(hn) /\ EveryIdOnce(hn)
    /\ \A k \in 1..Len(hn.ids) : hn.sent[k] <= 1
    /\ (hn.main = "returned" /\ ~hn.err) =>
          /\ hn.resultsClosed
          /\ hn.got = Len(hn.ids)
          /\ hn.results = <<>>
    /\ hn.main # "returned" => ENABLED NextHN

\* Fetch returned after five workers fetched six items and all six results
\* were collected
C31_Witness ==
    /\ hn.main = "returned"
    /\ Len(hn.ids) = 6
    /\ hn.got = 6
    /\ Cardinality(DOMAIN hn.worker) = 5

(***************************************************************************)
(* Further properties of the ingest pass                                   *)
(***************************************************************************)
\* the pass has invoked Fetch on every configured source, in order
FetchedEverySource ==
    /\ Len(pull.calls) = Len(pull.cfg.sources)
    /\ \A k \in 1..Len(pull.calls) : pull.calls[k].source = pull.cfg.sources[k]

PassCompleted == pull.pc = "done" /\ pull.err = "nil"

\* C33 as stated: an ingest pass invokes every source's Fetch with since =
\* now minus the retention window (the window that prune_old later applies).
C33_FetchSinceRetention ==
    /\ \A k \in 1..Len(pull.calls) :
          pull.calls[k].since = AddDate(PullNow, 0 - pull.cfg.retainDays)
    /\ PassCompleted => FetchedEverySource

\* C33, amended: an ingest pass invokes every source's Fetch with since =
\* now minus the configured digest window (digest.since); the retention
\* window that prune_old applies is a separate setting.
C33_FetchSinceDigestWindow ==
    /\ \A k \in 1..Len(pull.calls) :
          pull.calls[k].since = AddDate(PullNow, 0 - pull.cfg.since)
    /\ PassCompleted => FetchedEverySource

\* a pass over two sources completed with a digest window of two days and a
\* retention window of one
C33_Witness ==
    /\ PassCompleted
    /\ Len(pull.calls) = 2
    /\ pull.cfg.since = 2
    /\ pull.cfg.retainDays = 1
    /\ pull.calls[2].since = [day |-> 0, frac |-> 0]

\* C34: in an ingest pass that completes, deduplicate runs once after the
\* last post of the last source has been inserted, and prune_old runs once
\* after deduplicate has finished.
C34_DedupThenPruneOnce ==
    PassCompleted =>
        LET n == Len(pull.steps)
        IN /\ n >= 2
           /\ pull.steps[n - 1] = "dedup"
           /\ pull.steps[n] = "prune"
           /\ \A k \in 1..(n - 2) : pull.steps[k] = "insert"
           /\ n - 2 = pull.totalInserted
           /\ FetchedEverySource

\* a pass over two sources completed after inserting three posts
C34_Witness ==
    /\ PassCompleted
    /\ pull.steps = <<"insert", "insert", "insert", "dedup", "prune">>
    /\ Len(pull.cfg.sources) = 2

\* C35: a post with empty text returned by a source does not abort the
\* ingest pass: every post that carries a populated natural key and
\* posted_at is accepted by insert_post.
C35_EmptyTextAccepted ==
    \A k \in 1..Len(pull.rejected) :
        LET p == pull.rejected[k]
        IN \/ p.source = ""
           \/ p.channel = ""
           \/ p.external_id = ""
           \/ IsZero(p.posted_at)

(***************************************************************************)
(* Further properties of the store                                         *)
(***************************************************************************)
\* the source/channel pairs the also-in list of post id names in links
Attributed(links, id) ==
    {<<l.source, l.channel>> : l \in {m \in links : m.post_id = id}}

\* C36: cross-source attribution is never lost while the text is still
\* stored: when a keeper that already has AlsoInLinks is later itself
\* collapsed into an older post with the same text_hash, the new keeper's
\* also-in list still contains every source/channel the old keeper had
\* accumulated (or the new keeper is itself that source/channel).
C36_AlsoInSurvivesCollapse ==
    [][last'.op = "dedup" =>
         \A a \in posts :
            (\A q \in posts' : q.id # a.id) =>
               \A k \in {q \in posts' : q.text_hash = a.text_hash /\ PostedFirst(q, a)} :
                  Attributed(post_also_in, a.id) \subseteq
                     Attributed(post_also_in', k.id) \cup {<<k.source, k.channel>>}]_vars

(***************************************************************************)
(* A digest after a re-ingest: every stored post was scored by an earlier  *)
(* digest under the profile still in use, a pull upserts a post whose text *)
(* changed at the source, and digestAction runs again.                     *)
(***************************************************************************)
\* pullAction stores a fetched post whose natural key is already in the
\* store: InsertPost replaces text, snippet and text_hash and keeps the id
Reupsert ==
    /\ run # <<>>
    /\ run.pc = "get"
    /\ \E p \in posts, t \in RunTexts :
          LET in == [source |-> p.source, channel |-> p.channel,
                     external_id |-> p.external_id,
                     text |-> t.text, snippet |-> t.snippet,
                     posted_at |-> parseTime(p.posted_at), fetched_at |-> PullNow]
          IN /\ ~InsertPostInvalid(in)
             /\ posts' = Upsert(posts, in, nextId)
             /\ posts' # posts
    /\ last' = Other
    /\ UNCHANGED <<scores, post_also_in, nextId>>
    /\ UNCHANGED <<rssVars, pullVars, tasteVars, otherVars>>

InitStale ==
    /\ \E profile \in RunProfiles :
        /\ \E n \in 1..Min(MaxPosts, Len(KeySources)) :
              \E t \in [1..n -> RunTexts], day \in [1..n -> PostedDays] :
                  /\ posts = {StoredPostOn(i, t[i], day[i]) : i \in 1..n}
                  /\ \E hs \in Orders(profile.Weights.HighSignal),
                        ls \in Orders(profile.Weights.LowSignal) :
                        scores = {ScoreRow(StoredPostOn(i, t[i], day[i]),
                                           Score(storePostToSourcePost(t[i]), profile,
                                                 hs, ls)) : i \in 1..n}
                  /\ nextId = n + 1
        /\ \E since \in SinceTimes, filter \in SourceFilters :
              run = Running("digest", profile, since, filter, 2, 2, scores)
    /\ post_also_in = {}
    /\ last = Other
    /\ NoFetch
    /\ NoPull
    /\ NoScore
    /\ NoTrending
    /\ NoWatch
    /\ NoLate

NextStale ==
    \/ Reupsert
    \/ RunGetPosts
    \/ RunScore
    \/ DigestLimit

SpecStale == InitStale /\ [][NextStale]_vars

\* C37: a stored Score always corresponds to the post's current text: after
\* a re-upsert on the same natural key changes a post's text, the digest
\* does not present a Score that was computed from the earlier text: every
\* Score the digest presents is one the Scorer gives the post's stored text.
C37_ScoreOfCurrentText ==
    (run # <<>> /\ run.pc = "done") =>
        \A k \in 1..Len(run.posts) :
            run.posts[k].Score \in ScoreRows(run.posts[k].Post, run.profile)

(***************************************************************************)
(* Ingest passes over one source output: pullAction run again after a pass *)
(* that completed or that a store error ended part-way.  The sources       *)
(* return the same posts in every pass.                                    *)
(***************************************************************************)
MaxPasses == 2      \* ingest passes in one behaviour

IngestTexts == {<<97>>, LongText(97), LongText(98)}
IngestDays == {1, 2}

\* what one source returns from Fetch: posts with external ids "1", "2", ...
SourceOutputs(name, maxLen) ==
    UNION {{[k \in 1..n |-> [source |-> name, channel |-> "c1",
                             external_id |-> <<"1", "2">>[k],
                             text |-> t[k],
                             posted_at |-> [day |-> day[k], frac |-> 0]]] :
               t \in [1..n -> IngestTexts], day \in [1..n -> IngestDays]} :
           n \in 0..maxLen}

\* the posts of all sources in the order pullAction stores them
IngestOutputs ==
    {rss \o reddit : rss \in SourceOutputs("rss", 2), reddit \in SourceOutputs("reddit", 1)}

IngestConfigs ==
    [sources : {<<"rss", "reddit">>}, storeFullText : BOOLEAN, redact : {<<>>},
     retainDays : RetainDays, since : {1}]

PruneClock == [day |-> 3, frac |-> 0]

\* a pass before its first insert
Ingesting(cfg, out, pass) ==
    [cfg |-> cfg, out |-> out, pass |-> pass, i |-> 1,
     pc |-> IF out = <<>> THEN "dedup" ELSE "insert", err |-> "nil",
     prev |-> "nil", left |-> 0, merged |-> {}]

\* for _, p := range posts { ... db.InsertPost(ctx, input) ... }
IngestInsert ==
    /\ ingest # <<>>
    /\ ingest.pc = "insert"
    /\ LET in == PullInput(ingest.out[ingest.i], ingest.cfg)
       IN \E dbFails \in BOOLEAN :
            IF InsertPostInvalid(in) \/ dbFails
            THEN /\ ingest' = [ingest EXCEPT !.pc = "done", !.err = "insert post"]
                 /\ UNCHANGED <<posts, nextId>>
            ELSE /\ posts' = Upsert(posts, in, nextId)
                 /\ nextId' = IF \E q \in posts' : q.id = nextId
                              THEN nextId + 1 ELSE nextId
                 /\ ingest' = [ingest EXCEPT
                                 !.i = @ + 1,
                                 !.pc = IF ingest.i = Len(ingest.out)
                                        THEN "dedup" ELSE "insert"]
    /\ last' = Other
    /\ UNCHANGED <<scores, post_also_in>>
    /\ UNCHANGED <<rssVars, pullVars, tasteVars, trending, run, watch, hn, summ>>

\* dupes, err := db.Deduplicate(ctx)
IngestDeduplicate ==
    /\ ingest # <<>>
    /\ ingest.pc = "dedup"
    /\ \E failAt \in DedupFailPoints(DB) :
        LET res == DeduplicateCall(DB, failAt)
            dups == IF res.db.err THEN <<>> ELSE ToDelete(DB)
        IN /\ posts' = res.db.posts
           /\ scores' = res.db.scores
           /\ post_also_in' = res.db.post_also_in
           /\ ingest' = IF res.db.err
                        THEN [ingest EXCEPT !.pc = "done", !.err = "deduplicate"]
                        ELSE [ingest EXCEPT
                                !.pc = "prune",
                                !.merged = @ \cup
                                    {<<Key(CHOOSE p \in posts : p.id = dups[k].dupID),
                                       Key(CHOOSE p \in posts : p.id = dups[k].keeperID)>> :
                                        k \in 1..Len(dups)}]
    /\ last' = Other
    /\ UNCHANGED <<nextId, rssVars, pullVars, tasteVars, trending, run, watch, hn, summ>>

\* pruned, err := db.PruneOld(ctx, cfg.Storage.RetainDays)
IngestPruneOld ==
    /\ ingest # <<>>
    /\ ingest.pc = "prune"
    /\ \E failAt \in PruneFailPoints :
        LET res == PruneOldCall(DB, ingest.cfg.retainDays, PruneClock, failAt)
        IN /\ posts' = res.db.posts
           /\ scores' = res.db.scores
           /\ post_also_in' = res.db.post_also_in
           /\ ingest' = IF res.db.err
                        THEN [ingest EXCEPT !.pc = "done", !.err = "prune old"]
                        ELSE [ingest EXCEPT !.pc = "done"]
    /\ last' = Other
    /\ UNCHANGED <<nextId, rssVars, pullVars, tasteVars, trending, run, watch, hn, summ>>

\* noisepan pull is run again with the same configuration
IngestAgain ==
    /\ ingest # <<>>
    /\ ingest.pc = "done"
    /\ ingest.pass < MaxPasses
    /\ ingest' = [Ingesting(ingest.cfg, ingest.out, ingest.pass + 1)
                    EXCEPT !.merged = ingest.merged, !.prev = ingest.err,
                           !.left = Cardinality(posts)]
    /\ last' = Other
    /\ UNCHANGED <<storeVars, rssVars, pullVars, tasteVars, trending, run, watch, hn, summ>>

InitIngest ==
    /\ posts = {}
    /\ scores = {}
    /\ post_also_in = {}
    /\ nextId = 1
    /\ last = Other
    /\ NoFetch
    /\ NoPull
    /\ NoScore
    /\ NoTrending
    /\ NoRun
    /\ NoWatch
    /\ hn = <<>>
    /\ summ = <<>>
    /\ \E cfg \in IngestConfigs, out \in IngestOutputs :
          ingest = Ingesting(cfg, out, 1)

NextIngest ==
    \/ IngestInsert
    \/ IngestDeduplicate
    \/ IngestPruneOld
    \/ IngestAgain

SpecIngest == InitIngest /\ [][NextIngest]_vars

\* C38: Deduplicate collapses two posts only if their full source texts are
\* identical, also when only the snippet is stored: every post an ingest
\* pass merged into a keeper was fetched with the same full text as the
\* keeper.
C38_MergedOnlyIdenticalTexts ==
    ingest # <<>> =>
        \A m \in ingest.merged :
            \A j, k \in 1..Len(ingest.out) :
                (Key(ingest.out[j]) = m[1] /\ Key(ingest.out[k]) = m[2])
                    => ingest.out[j].text = ingest.out[k].text

\* the store as the claims about ingest see it: the surviving posts without
\* their row ids, and each also-in link with the natural key of its post
Survivors(db) ==
    [posts |-> {[p EXCEPT !.id = 0] : p \in db.posts},
     also_in |-> {<<Key(CHOOSE p \in db.posts : p.id = a.post_id), a.source, a.channel>> :
                     a \in db.post_also_in}]

\* the InsertPost calls of one pass, none failing
RECURSIVE InsertAll(_, _, _, _)
InsertAll(db, out, cfg, id) ==
    IF out = <<>> THEN db
    ELSE LET rows == Upsert(db.posts, PullInput(Head(out), cfg), id)
         IN InsertAll([db EXCEPT !.posts = rows], Tail(out), cfg,
                      IF \E q \in rows : q.id = id THEN id + 1 ELSE id)

\* one pass of pullAction in which no call fails
CompletePass(db, out, cfg, id) ==
    LET inserted == InsertAll(db, out, cfg, id)
        deduped == DeduplicateCall(inserted, 3 * Len(ToDelete(inserted)) + 2).db
    IN PruneOldCall(deduped, cfg.retainDays, PruneClock, 4).db

EmptyStore == [posts |-> {}, scores |-> {}, post_also_in |-> {}, err |-> FALSE]

\* C32: ingest is idempotent on natural key: when a pass over the same
\* source output completes after an earlier pass, whether that one
\* completed or a store error ended it part-way, the surviving posts and
\* the also-in links are those of a single complete pass.
C32_ReingestIdempotent ==
    (ingest # <<>> /\ ingest.pass > 1 /\ ingest.pc = "done" /\ ingest.err = "nil") =>
        Survivors(DB) = Survivors(CompletePass(EmptyStore, ingest.out, ingest.cfg, 1))

C32_Witness ==
    /\ ingest # <<>>
    /\ ingest.pass > 1 /\ ingest.pc = "done" /\ ingest.err = "nil"
    /\ ingest.prev = "insert post"
    /\ ingest.left > 0
    /\ post_also_in # {}
    /\ Cardinality(posts) < Len(ingest.out)

(***************************************************************************)
(* summarize.HeuristicSummarizer, summarize.LLMSummarizer and the digest   *)
(* formatters.  Texts are sequences of ASCII code points.                  *)
(***************************************************************************)
MaxFrags == 3       \* pieces a summarized text is put together from

maxBullets == 3
maxFirstSentence == 120

Dots == <<46, 46, 46>>                  \* "..."
Empty == <<40, 101, 109, 112, 116, 121, 41>>        \* "(empty)"

\* "breaking change", "deprecated", "removed"
alertKeywords ==
    <<<<98, 114, 101, 97, 107, 105, 110, 103, 32, 99, 104, 97, 110, 103, 101>>,
      <<100, 101, 112, 114, 101, 99, 97, 116, 101, 100>>,
      <<114, 101, 109, 111, 118, 101, 100>>>>

White == {32, 10, 9, 13}
Digits == 48..57

\* strings.TrimSpace on a text that may hold newlines
RECURSIVE TrimWhiteLeft(_)
TrimWhiteLeft(s) == IF s # <<>> /\ s[1] \in White THEN TrimWhiteLeft(Tail(s)) ELSE s

RECURSIVE TrimWhiteRight(_)
TrimWhiteRight(s) ==
    IF s # <<>> /\ s[Len(s)] \in White
    THEN TrimWhiteRight(SubSeq(s, 1, Len(s) - 1)) ELSE s

TrimWhite(s) == TrimWhiteRight(TrimWhiteLeft(s))

\* the least member of a non-empty set of positions
First(S) == CHOOSE q \in S : \A r \in S : q <= r

\* the number of consecutive code points of set from position i on
Run(s, i, set) ==
    IF i > Len(s) THEN 0
    ELSE First({j \in i..(Len(s) + 1) : j = Len(s) + 1 \/ s[j] \notin set}) - i

HasAt(s, i, lit) == i + Len(lit) - 1 <= Len(s) /\ SubSeq(s, i, i + Len(lit) - 1) = lit

\* the length of the match of a regular expression that starts at position
\* i, 0 when there is none:
\*   urlRe     https?://\S+
\*   cveRe     CVE-\d{4}-\d{4,}
\*   versionRe v?\d+\.\d+\.\d+
MatchAt(re, s, i) ==
    CASE re = "urlRe" ->
            LET scheme == IF HasAt(s, i, <<104, 116, 116, 112, 115, 58, 47, 47>>) THEN 8
                          ELSE IF HasAt(s, i, <<104, 116, 116, 112, 58, 47, 47>>) THEN 7 ELSE 0
                rest == Run(s, i + scheme, (0..127) \ White)
            IN IF scheme > 0 /\ rest > 0 THEN scheme + rest ELSE 0
      [] re = "cveRe" ->
            LET year == Run(s, i + 4, Digits)
                num == Run(s, i + 9, Digits)
            IN IF HasAt(s, i, <<67, 86, 69, 45>>) /\ year >= 4 /\ HasAt(s, i + 8, <<45>>) /\ num >= 4
               THEN 9 + num ELSE 0
      [] re = "versionRe" ->
            LET v == IF HasAt(s, i, <<118>>) THEN 1 ELSE 0
                a == Run(s, i + v, Digits)
                b == Run(s, i + v + a + 1, Digits)
                c == Run(s, i + v + a + 1 + b + 1, Digits)
            IN IF a > 0 /\ HasAt(s, i + v + a, <<46>>) /\ b > 0
                  /\ HasAt(s, i + v + a + 1 + b, <<46>>) /\ c > 0
               THEN v + a + 1 + b + 1 + c ELSE 0

\* re.FindAllString(s, -1): the leftmost matches, none overlapping
RECURSIVE FindAllString(_, _, _)
FindAllString(re, s, i) ==
    LET n == [j \in i..Len(s) |-> MatchAt(re, s, j)]
        starts == {j \in i..Len(s) : n[j] > 0}
    IN IF starts = {} THEN <<>>
       ELSE LET j == First(starts)
            IN <<SubSeq(s, j, j + n[j] - 1)>> \o FindAllString(re, s, j + n[j])

\* strings.Join(elems, ", ")
RECURSIVE Join(_)
Join(elems) ==
    IF elems = <<>> THEN <<>>
    ELSE IF Len(elems) = 1 THEN elems[1]
    ELSE elems[1] \o <<44, 32>> \o Join(Tail(elems))

\* the first position at or after i that holds code point c, 0 when none
IndexFrom(s, i, c) ==
    LET at == {j \in i..Len(s) : s[j] = c}
    IN IF at = {} THEN 0 ELSE First(at)

firstSentence(text, maxLen) ==
    IF text = <<>> THEN <<>>
    ELSE LET nl == IndexFrom(text, 1, 10)
             line == IF nl > 0 THEN nl - 1 ELSE Len(text)
             stops == {q \in 1..(line - 1) :
                          text[q] = 46 /\ text[q + 1] \in {32, 10}}
             end == IF stops = {} THEN line ELSE First(stops)
             spaces == {q \in 1..maxLen : text[q] = 32}
             idx == IF spaces = {} THEN 0
                    ELSE (CHOOSE q \in spaces : \A r \in spaces : r <= q) - 1
         IN IF end > maxLen
            THEN IF idx > 0 THEN SubSeq(text, 1, idx) \o Dots
                 ELSE SubSeq(text, 1, maxLen) \o Dots
            ELSE TrimWhite(SubSeq(text, 1, end))

\* splitSentences from position i on: the strings.Builder holds the text
\* from i up to the next newline or sentence-ending period
RECURSIVE splitSentences(_, _)
splitSentences(text, i) ==
    IF i > Len(text) THEN <<>>
    ELSE LET ends == {j \in i..Len(text) :
                         \/ text[j] = 10
                         \/ (text[j] = 46 /\ j + 1 <= Len(text)
                                /\ text[j + 1] \in {32, 10})}
             end == IF ends = {} THEN Len(text) ELSE First(ends)
             current == TrimWhite(SubSeq(text, i, end))
         IN (IF current # <<>> THEN <<current>> ELSE <<>>)
                \o splitSentences(text, end + 1)

findSentenceContaining(text, keywords) ==
    LET sentences == splitSentences(text, 1)
        hits == {i \in 1..Len(sentences) :
                    \E k \in 1..Len(keywords) :
                        ContainsText(ToLower(sentences[i]), keywords[k])}
    IN IF hits = {} THEN <<>>
       ELSE LET sent == TrimWhite(sentences[CHOOSE i \in hits : \A j \in hits : i <= j])
            IN IF Len(sent) > maxFirstSentence
               THEN SubSeq(sent, 1, maxFirstSentence) \o Dots
               ELSE sent

\* "%d links included"
LinksIncluded(n) == <<Digit(n)>> \o <<32, 108, 105, 110, 107, 115, 32, 105, 110, 99, 108, 117, 100, 101, 100>>

\* bullet 1: the first sentence, always present
FirstBullet(found) == IF found = <<>> THEN <<Empty>> ELSE <<found>>

\* bullet 2: the sentence containing an alert keyword
AlertBullet(bullets, sent) ==
    IF sent # <<>> /\ sent # bullets[1] THEN Append(bullets, sent) ELSE bullets

\* bullet 3: the metadata summary
MetadataBullet(bullets, cves, versions, links) ==
    IF Len(bullets) < maxBullets
    THEN IF Len(cves) > 0 THEN Append(bullets, <<67, 86, 69, 58, 32>> \o Join(cves))
         ELSE IF Len(versions) > 0 THEN Append(bullets, <<86, 101, 114, 115, 105, 111, 110, 115, 58, 32>> \o Join(versions))
         ELSE IF Len(links) > 3 THEN Append(bullets, LinksIncluded(Len(links)))
         ELSE bullets
    ELSE bullets

\* cap at max
Capped(bullets) ==
    IF Len(bullets) > maxBullets THEN SubSeq(bullets, 1, maxBullets) ELSE bullets

SummaryOf(bullets, links, cves) == [Bullets |-> bullets, Links |-> links, CVEs |-> cves]

Extracted(text, links, cves, versions) ==
    SummaryOf(Capped(MetadataBullet(
                  AlertBullet(FirstBullet(firstSentence(text, maxFirstSentence)),
                              findSentenceContaining(text, alertKeywords)),
                  cves, versions, links)),
              links, cves)

Trimmed(text) ==
    Extracted(text, FindAllString("urlRe", text, 1), FindAllString("cveRe", text, 1),
              FindAllString("versionRe", text, 1))

\* (h *HeuristicSummarizer) Summarize
HeuristicSummarize(text) == Trimmed(TrimWhite(text))

\* strings.Split(content, "\n")
RECURSIVE Lines(_)
Lines(content) ==
    LET nl == IndexFrom(content, 1, 10)
    IN IF nl = 0 THEN <<content>>
       ELSE <<SubSeq(content, 1, nl - 1)>> \o Lines(SubSeq(content, nl + 1, Len(content)))

RECURSIVE BulletsOf(_)
BulletsOf(lines) ==
    IF lines = <<>> THEN <<>>
    ELSE LET line == TrimWhite(Head(lines))
         IN (IF HasAt(line, 1, <<45, 32>>) THEN <<SubSeq(line, 3, Len(line))>>
             ELSE IF HasAt(line, 1, <<45>>) THEN <<SubSeq(line, 2, Len(line))>>
             ELSE <<>>) \o BulletsOf(Tail(lines))

parseBullets(content) == BulletsOf(Lines(content))

\* what callAPI returns: an error, or the bullets parsed from the content
\* of the first choice
APIError == [err |-> TRUE, content |-> <<>>]

APIResponses ==
    {APIError} \cup
    {[err |-> FALSE, content |-> c] :
        c \in {<<>>,
               <<111, 107>>,                 \* "ok"
               <<45>>,                 \* "-"
               <<45, 32, 97, 10, 45, 98>>,         \* "- a\n-b"
               <<45, 32, 97, 10, 45, 32, 98, 10, 45, 32, 99, 10, 45, 32, 100, 10, 45, 32, 101>>}}   \* five bullets

\* the Summary built from the bullets callAPI returned
Parsed(text, bullets, fallback) ==
    IF Len(bullets) = 0 THEN fallback
    ELSE SummaryOf(bullets, FindAllString("urlRe", text, 1), FindAllString("cveRe", text, 1))

LLMNoFallback(text, resp, fallback) ==
    IF resp.err THEN fallback
    ELSE SummaryOf(parseBullets(resp.content), <<>>, <<>>)

\* (l *LLMSummarizer) Summarize, resp being what callAPI got and fallback
\* what l.fallback.Summarize(text) returns
LLMSummarize(text, resp, fallback) ==
    IF resp.err THEN fallback
    ELSE Parsed(text, parseBullets(resp.content), fallback)

\* summer.Summarize(text), summer being the LLM summarizer or the heuristic
SummerSummarize(useLLM, text, resp, heuristic) ==
    IF useLLM THEN LLMSummarize(text, resp, heuristic) ELSE heuristic

\* a Go slice expression s[low:]: out of range when low > len(s)
SliceFrom(s, low) ==
    IF low > Len(s) THEN [panic |-> TRUE, slice |-> <<>>]
    ELSE [panic |-> FALSE, slice |-> SubSeq(s, low + 1, Len(s))]

\* toJSONItems, and writeReadNowItem of the terminal and markdown
\* formatters: the headline and the bullets after it
FormatItem(summary) ==
    LET rest == SliceFrom(summary.Bullets, 1)
    IN [headline |-> IF Len(summary.Bullets) > 0 THEN summary.Bullets[1] ELSE <<>>,
        bullets |-> rest.slice, panic |-> rest.panic]

Fragments ==
    {<<97>>,                          \* "a"
     <<46, 32>>,                      \* ". "
     <<10>>,                        \* "\n"
     <<82, 101, 109, 111, 118, 101, 100>>,   \* "Removed"
     <<67, 86, 69, 45, 50, 48, 50, 54, 45, 49, 50, 51, 52>>,   \* "CVE-2026-1234"
     <<118, 49, 46, 50, 46, 51, 32>>,          \* "v1.2.3 "
     <<104, 116, 116, 112, 58, 47, 47, 120, 32, 104, 116, 116, 112, 58, 47, 47, 121, 32>>,   \* "http://x http://y "
     [i \in 1..(maxFirstSentence + 1) |-> 97]}

RECURSIVE PutTogether(_)
PutTogether(n) ==
    IF n = 0 THEN {<<>>}
    ELSE PutTogether(n - 1) \cup {t \o f : t \in PutTogether(n - 1), f \in Fragments}

SummTexts == PutTogether(MaxFrags)

Formatters == {"json", "terminal", "markdown"}

\* digestAction building one digest item: the heuristic summarizer, or the
\* LLM summarizer for a read_now post when summarize.mode is llm and a key
\* is set
Summarizing(text, tier, llm) ==
    [pc |-> "summarize", text |-> text, tier |-> tier, llm |-> llm,
     by |-> "", summary |-> <<>>, out |-> <<>>]

SummarizeItem ==
    /\ summ # <<>>
    /\ summ.pc = "summarize"
    /\ \E resp \in APIResponses :
          summ' = [summ EXCEPT
                     !.pc = "format",
                     !.by = IF summ.llm /\ summ.tier = "read_now"
                            THEN "llm" ELSE "heuristic",
                     !.summary = SummerSummarize(summ.llm /\ summ.tier = "read_now",
                                                 summ.text, resp,
                                                 HeuristicSummarize(summ.text))]
    /\ UNCHANGED <<storeVars, rssVars, pullVars, tasteVars, trending, run, watch, hn, ingest>>

\* formatter.Format(os.Stdout, input)
FormatDigest ==
    /\ summ # <<>>
    /\ summ.pc = "format"
    /\ \E f \in Formatters :
          LET out == FormatItem(summ.summary)
          IN summ' = [summ EXCEPT !.pc = IF out.panic THEN "panic" ELSE "done",
                                  !.out = [format |-> f, headline |-> out.headline,
                                           bullets |-> out.bullets]]
    /\ UNCHANGED <<storeVars, rssVars, pullVars, tasteVars, trending, run, watch, hn, ingest>>

InitSumm ==
    /\ posts = {}
    /\ scores = {}
    /\ post_also_in = {}
    /\ nextId = 1
    /\ last = Other
    /\ NoFetch
    /\ NoPull
    /\ NoScore
    /\ NoTrending
    /\ NoRun
    /\ NoWatch
    /\ hn = <<>>
    /\ ingest = <<>>
    /\ \E text \in SummTexts, tier \in {"read_now", "skim"}, llm \in BOOLEAN :
          summ = Summarizing(text, tier, llm)

NextSumm ==
    \/ SummarizeItem
    \/ FormatDigest

SpecSumm == InitSumm /\ [][NextSumm]_vars

\* C40: every Summary handed to a digest formatter has at least one bullet,
\* the heuristic summarizer giving between 1 and maxBullets bullets and the
\* LLM summarizer falling back to it when no bullet is parsed, so no
\* formatter's slice of the bullets after the first is out of range.
C40_AtLeastOneBullet ==
    (summ # <<>> /\ summ.pc # "summarize") =>
        /\ Len(summ.summary.Bullets) >= 1
        /\ summ.by = "heuristic" => Len(summ.summary.Bullets) <= maxBullets
        /\ summ.pc # "panic"
        /\ summ.pc = "done" =>
              <<summ.out.headline>> \o summ.out.bullets = summ.summary.Bullets

C40_Witness ==
    /\ summ # <<>>
    /\ summ.pc = "done"
    /\ summ.by = "llm"
    /\ TrimWhite(summ.text) = <<>>
    /\ summ.summary.Bullets = <<Empty>>
    /\ summ.out.bullets = <<>>

====
